---- MODULE Spec2Model ----
(***************************************************************************)
(* RouteTracker distance engine: the streaming GPSFilter                   *)
(* (utils/gpsFilter.ts), the batch recomputer calculateFilteredDistance    *)
(* and the motion classifier / trip hook that feed them.                   *)
(*                                                                         *)
(* Fixed-point units (the source computes in IEEE doubles):                *)
(*   lengths, accuracies, coordinates : decimetres (0.1 m); a coordinate   *)
(*       is the distance north / east of (0,0) along the meridian /        *)
(*       equator, so the haversine distance of two nearby points is the    *)
(*       Euclidean distance of their coordinates                           *)
(*   speeds      : decimetres per second (0.1 m/s)                         *)
(*   confidences : tenths (0 .. 10 stands for 0.0 .. 1.0)                  *)
(*   timestamps  : milliseconds                                            *)
(*   variances of the Kalman state : square decimetres                     *)
(*   Kalman gain : thousandths                                             *)
(*   returned distances : decimetres (the source returns kilometres,       *)
(*       metres / 1000)                                                    *)
(***************************************************************************)
EXTENDS Integers, Sequences, FiniteSets, TLC

VARIABLES
    globalFilter,   \* the GPSFilter instance behind getGPSFilter()
    device,         \* the location provider: the position and time of its last fix
    last,           \* the last call on the filter: its input and its result
    total,          \* sum of the distances returned since the last reset
    fed,            \* number of processPoint calls made so far
    stored,         \* the caller's array of stored GPSPoints of a finished trip
    batch,          \* the calculateFilteredDistance calls made on it: how many,
                    \* the total the first returned, the total the latest returned
    motion,         \* useMotionDetection's state and refs, the module-level
                    \* globalMotion* values, and analyzeGPSMotion's buffer
    trip            \* useTrip: whether a trip is active, how many were started,
                    \* and this trip's fixes and filter results

streamVars == <<globalFilter, device, last, total, fed>>
batchVars == <<stored, batch>>
tripVars == <<motion, trip>>
vars == <<globalFilter, device, last, total, fed, stored, batch, motion, trip>>

(***************************************************************************)
(* Values standing for absent / non-finite inputs                          *)
(***************************************************************************)
\* null in a field that holds an object (kalmanState, lastValidPoint, dwellCenter)
Null == [isNull |-> TRUE]
\* no trip started yet
NoTrip == [active |-> FALSE, number |-> 0, samples |-> <<>>, outputs |-> <<>>]
\* no calculateFilteredDistance call made yet
NoBatch == [calls |-> 0, first |-> 0, latest |-> 0]
\* undefined / null where a number is expected (an absent accuracy or speed)
undefined == -1000000
\* a non-finite number (NaN, Infinity)
NaN == 999999999

(***************************************************************************)
(* Program constants of GPSFilter, in model units                          *)
(***************************************************************************)
BUFFER_SIZE == 20
STATIONARY_LOCK_RELEASE_METERS == 150
STATIONARY_LOCK_RELEASE_SECONDS == 20
DWELL_RADIUS_METERS == 120
MIN_SPEED_MPS == 4
MIN_ACCURACY_METERS == 500
MIN_SEGMENT_METERS == 50
CONSECUTIVE_MOVING_THRESHOLD == 2
CONSECUTIVE_STATIONARY_THRESHOLD == 4
PROCESS_NOISE == 20
MEASUREMENT_NOISE_BASE == 120
VARIANCE_WINDOW_SIZE == 10
MAX_STATIONARY_VARIANCE == 80
\* 90 and 180 degrees of arc, in decimetres
LAT_LIMIT == 100075500
LON_LIMIT == 200151000

(***************************************************************************)
(* Arithmetic helpers                                                      *)
(***************************************************************************)

Max(a, b) == IF a >= b THEN a ELSE b

Min(a, b) == IF a <= b THEN a ELSE b

RECURSIVE SqrtSearch(_, _, _)
SqrtSearch(n, lo, hi) ==
    IF lo >= hi THEN lo
    ELSE LET mid == (lo + hi + 1) \div 2
         IN  IF mid * mid <= n THEN SqrtSearch(n, mid, hi)
                               ELSE SqrtSearch(n, lo, mid - 1)

\* Math.sqrt, rounded down to a whole unit
Sqrt(n) == SqrtSearch(n, 0, Min(n, 46340))

\* push(x) followed by shift() when the array is longer than cap
PushCapped(s, x, cap) ==
    LET t == Append(s, x) IN IF Len(t) > cap THEN Tail(t) ELSE t

(***************************************************************************)
(* GPSFilter: pure helpers                                                 *)
(***************************************************************************)
IsFinite(x) == x # NaN

isValidCoordinate(lat, lon) ==
    /\ IsFinite(lat) /\ IsFinite(lon)
    /\ lat >= -LAT_LIMIT /\ lat <= LAT_LIMIT
    /\ lon >= -LON_LIMIT /\ lon <= LON_LIMIT

\* a distance that validates its first point only: a bad second point goes
\* into the trigonometry
haversineDistance_ChecksFirstPoint(lat1, lon1, lat2, lon2) ==
    IF ~isValidCoordinate(lat1, lon1) THEN 0
    ELSE IF ~isValidCoordinate(lat2, lon2) THEN NaN
    ELSE LET dLat == lat2 - lat1
             dLon == lon2 - lon1
         IN  Sqrt(dLat * dLat + dLon * dLon)

haversineDistance(lat1, lon1, lat2, lon2) ==
    IF ~isValidCoordinate(lat1, lon1) \/ ~isValidCoordinate(lat2, lon2)
    THEN 0
    ELSE LET dLat == lat2 - lat1
             dLon == lon2 - lon1
         IN  Sqrt(dLat * dLat + dLon * dLon)

\* the fields of a newly constructed GPSFilter
NewGPSFilter ==
    [ kalmanState |-> Null,
      pointBuffer |-> <<>>,
      lastValidPoint |-> Null,
      isStationaryLocked |-> TRUE,
      lockReleaseTime |-> 0,
      dwellCenter |-> Null,
      consecutiveStationaryCount |-> 0,
      consecutiveMovingCount |-> 0,
      recentPositions |-> <<>> ]

\* a reset that forgets to clear the consecutive counters
reset_KeepsCounters(f) ==
    [NewGPSFilter EXCEPT !.consecutiveMovingCount = f.consecutiveMovingCount,
                         !.consecutiveStationaryCount = f.consecutiveStationaryCount]

\* GPSFilter.reset(): the filter it leaves
reset(f) ==
    [f EXCEPT !.kalmanState = Null,
              !.pointBuffer = <<>>,
              !.lastValidPoint = Null,
              !.isStationaryLocked = TRUE,
              !.lockReleaseTime = 0,
              !.dwellCenter = Null,
              !.consecutiveStationaryCount = 0,
              !.consecutiveMovingCount = 0,
              !.recentPositions = <<>>]

getState(f) ==
    [ isLocked |-> f.isStationaryLocked,
      consecutiveMoving |-> f.consecutiveMovingCount,
      consecutiveStationary |-> f.consecutiveStationaryCount,
      bufferSize |-> Len(f.pointBuffer) ]

\* the new kalmanState; the filtered position returned is its lat / lon
\* an estimator that does not take a measurement coarser than the ceiling
applyKalmanFilter_RejectsCoarse(ks, lat, lon, accuracy, timestamp) ==
    IF ks # Null /\ accuracy > MIN_ACCURACY_METERS
    THEN ks
    ELSE LET measurementNoise == Max(MEASUREMENT_NOISE_BASE, accuracy)
             mn2 == measurementNoise * measurementNoise
         IN  IF ks = Null
             THEN [ lat |-> lat, lon |-> lon, latVariance |-> mn2,
                    lonVariance |-> mn2, timestamp |-> timestamp ]
             ELSE [ks EXCEPT !.lat = lat, !.lon = lon, !.timestamp = timestamp]

applyKalmanFilter(ks, lat, lon, accuracy, timestamp) ==
    LET measurementNoise == Max(MEASUREMENT_NOISE_BASE, accuracy)
        mn2 == measurementNoise * measurementNoise
    IN  IF ks = Null
        THEN [ lat |-> lat, lon |-> lon,
               latVariance |-> mn2, lonVariance |-> mn2,
               timestamp |-> timestamp ]
        ELSE LET timeDelta == timestamp - ks.timestamp
                 processNoise == (PROCESS_NOISE * timeDelta) \div 1000
                 predictedLatVariance == ks.latVariance + processNoise * processNoise
                 predictedLonVariance == ks.lonVariance + processNoise * processNoise
                 latKalmanGain == (predictedLatVariance * 1000) \div (predictedLatVariance + mn2)
                 lonKalmanGain == (predictedLonVariance * 1000) \div (predictedLonVariance + mn2)
             IN  [ lat |-> ks.lat + (latKalmanGain * (lat - ks.lat)) \div 1000,
                   lon |-> ks.lon + (lonKalmanGain * (lon - ks.lon)) \div 1000,
                   latVariance |-> ((1000 - latKalmanGain) * predictedLatVariance) \div 1000,
                   lonVariance |-> ((1000 - lonKalmanGain) * predictedLonVariance) \div 1000,
                   timestamp |-> timestamp ]

RECURSIVE SumLat(_)
SumLat(ps) == IF ps = <<>> THEN 0 ELSE Head(ps).lat + SumLat(Tail(ps))

RECURSIVE SumLon(_)
SumLon(ps) == IF ps = <<>> THEN 0 ELSE Head(ps).lon + SumLon(Tail(ps))

RECURSIVE SumSqDist(_, _, _)
SumSqDist(ps, cLat, cLon) ==
    IF ps = <<>> THEN 0
    ELSE LET dist == haversineDistance(cLat, cLon, Head(ps).lat, Head(ps).lon)
         IN  dist * dist + SumSqDist(Tail(ps), cLat, cLon)

\* over recentPositions: the root mean square distance from the centroid
calculatePositionVariance(recentPositions) ==
    IF Len(recentPositions) < 3 THEN 0
    ELSE LET centroidLat == SumLat(recentPositions) \div Len(recentPositions)
             centroidLon == SumLon(recentPositions) \div Len(recentPositions)
             totalVariance == SumSqDist(recentPositions, centroidLat, centroidLon)
         IN  Sqrt(totalVariance \div Len(recentPositions))

(***************************************************************************)
(* GPSFilter.checkStationaryLock                                           *)
(***************************************************************************)
\* pointBuffer.filter(p => p.timestamp >= windowStart)
WindowPoints(pointBuffer) ==
    LET now == pointBuffer[Len(pointBuffer)].timestamp
        windowStart == now - STATIONARY_LOCK_RELEASE_SECONDS * 1000
        InWindow(p) == p.timestamp >= windowStart
    IN  SelectSeq(pointBuffer, InWindow)

netDisplacementOf(recentPoints) ==
    LET oldest == recentPoints[1]
        newest == recentPoints[Len(recentPoints)]
    IN  haversineDistance(oldest.latitude, oldest.longitude,
                          newest.latitude, newest.longitude)

RECURSIVE SumSpeed(_)
SumSpeed(ps) == IF ps = <<>> THEN 0 ELSE Head(ps).speed + SumSpeed(Tail(ps))

RECURSIVE SumAccuracy(_)
SumAccuracy(ps) == IF ps = <<>> THEN 0 ELSE Head(ps).accuracy + SumAccuracy(Tail(ps))

\* avgSpeed >= bound, the average being SumSpeed / length
AvgSpeedAtLeast(recentPoints, bound) ==
    SumSpeed(recentPoints) >= bound * Len(recentPoints)

\* avgAccuracy <= bound
AvgAccuracyAtMost(recentPoints, bound) ==
    SumAccuracy(recentPoints) <= bound * Len(recentPoints)

\* a release condition that forgets the accuracy ceiling
ReleaseCondition_NoAccuracy(f, recentPoints) ==
    /\ netDisplacementOf(recentPoints) > STATIONARY_LOCK_RELEASE_METERS
    /\ AvgSpeedAtLeast(recentPoints, MIN_SPEED_MPS)
    /\ f.consecutiveMovingCount >= CONSECUTIVE_MOVING_THRESHOLD
    /\ calculatePositionVariance(f.recentPositions) > MAX_STATIONARY_VARIANCE

\* a release condition with the earlier threshold of 3 consecutive moving samples
ReleaseCondition_Threshold3(f, recentPoints) ==
    /\ netDisplacementOf(recentPoints) > STATIONARY_LOCK_RELEASE_METERS
    /\ AvgSpeedAtLeast(recentPoints, MIN_SPEED_MPS)
    /\ AvgAccuracyAtMost(recentPoints, MIN_ACCURACY_METERS)
    /\ f.consecutiveMovingCount >= 3
    /\ calculatePositionVariance(f.recentPositions) > MAX_STATIONARY_VARIANCE

\* a release condition joined with || in place of &&
ReleaseCondition_AnyOf(f, recentPoints) ==
    \/ netDisplacementOf(recentPoints) > STATIONARY_LOCK_RELEASE_METERS
    \/ AvgSpeedAtLeast(recentPoints, MIN_SPEED_MPS)
    \/ AvgAccuracyAtMost(recentPoints, MIN_ACCURACY_METERS)
    \/ f.consecutiveMovingCount >= CONSECUTIVE_MOVING_THRESHOLD
    \/ calculatePositionVariance(f.recentPositions) > MAX_STATIONARY_VARIANCE

\* the condition of the if at lines 172-178
ReleaseCondition(f, recentPoints) ==
    /\ netDisplacementOf(recentPoints) > STATIONARY_LOCK_RELEASE_METERS
    /\ AvgSpeedAtLeast(recentPoints, MIN_SPEED_MPS)
    /\ AvgAccuracyAtMost(recentPoints, MIN_ACCURACY_METERS)
    /\ f.consecutiveMovingCount >= CONSECUTIVE_MOVING_THRESHOLD
    /\ calculatePositionVariance(f.recentPositions) > MAX_STATIONARY_VARIANCE

\* a re-lock condition without the variance alternative
RelockCondition_DisplacementOnly(f, recentPoints) ==
    /\ netDisplacementOf(recentPoints) < 120
    /\ ~AvgSpeedAtLeast(recentPoints, 5)

\* the condition of the if at lines 185-189
RelockCondition(f, recentPoints) ==
    \/ /\ netDisplacementOf(recentPoints) < 120
       /\ ~AvgSpeedAtLeast(recentPoints, 5)
    \/ /\ calculatePositionVariance(f.recentPositions) < MAX_STATIONARY_VARIANCE
       /\ f.consecutiveStationaryCount >= CONSECUTIVE_STATIONARY_THRESHOLD

\* a lock check content with two points in the window
LockCheckRuns_TwoInWindow(pointBuffer) ==
    /\ Len(pointBuffer) >= 4
    /\ Len(WindowPoints(pointBuffer)) >= 2

\* the early returns at lines 152 and 158
LockCheckRuns(pointBuffer) ==
    /\ Len(pointBuffer) >= 4
    /\ Len(WindowPoints(pointBuffer)) >= 3

checkStationaryLock(f) ==
    IF ~LockCheckRuns(f.pointBuffer) THEN f
    ELSE LET recentPoints == WindowPoints(f.pointBuffer)
             now == f.pointBuffer[Len(f.pointBuffer)].timestamp
             newest == recentPoints[Len(recentPoints)]
         IN  IF f.isStationaryLocked
             THEN IF ReleaseCondition(f, recentPoints)
                  THEN [f EXCEPT !.isStationaryLocked = FALSE,
                                 !.lockReleaseTime = now,
                                 !.dwellCenter = Null,
                                 !.consecutiveStationaryCount = 0]
                  ELSE f
             ELSE IF RelockCondition(f, recentPoints)
                  THEN [f EXCEPT !.isStationaryLocked = TRUE,
                                 !.dwellCenter = [lat |-> newest.latitude,
                                                  lon |-> newest.longitude],
                                 !.consecutiveMovingCount = 0]
                  ELSE f

(***************************************************************************)
(* GPSFilter.processPoint                                                  *)
(***************************************************************************)
Result(distance, isMoving, filteredLat, filteredLon) ==
    [ distance |-> distance, isMoving |-> isMoving,
      filteredLat |-> filteredLat, filteredLon |-> filteredLon ]

\* counters that classify by the motion confidence alone
UpdateCounters_ConfidenceAlone(f, spd, motionConfidence) ==
    IF motionConfidence >= 6
    THEN [f EXCEPT !.consecutiveMovingCount = @ + 1,
                   !.consecutiveStationaryCount = 0]
    ELSE [f EXCEPT !.consecutiveStationaryCount = @ + 1,
                   !.consecutiveMovingCount = 0]

\* lines 228-242: the two consecutive counters after classifying one sample
UpdateCounters(f, spd, motionConfidence) ==
    LET adjustedConfidence == IF spd < 4 THEN Min(motionConfidence, 3) ELSE motionConfidence
        isMovingBySpeed == spd >= MIN_SPEED_MPS
        isMovingByConfidence == adjustedConfidence >= 6
    IN  IF isMovingBySpeed /\ isMovingByConfidence
        THEN [f EXCEPT !.consecutiveMovingCount = @ + 1,
                       !.consecutiveStationaryCount = 0]
        ELSE IF ~isMovingBySpeed /\ ~isMovingByConfidence
        THEN [f EXCEPT !.consecutiveStationaryCount = @ + 1,
                       !.consecutiveMovingCount = 0]
        ELSE IF f.consecutiveMovingCount > 0
        THEN [f EXCEPT !.consecutiveMovingCount = Max(0, @ - 1)]
        ELSE f

\* a segment's implied speed is outside the plausible range (lines 327-338)
ImplausibleSpeed(segmentDistance, timeDiffMs) ==
    /\ timeDiffMs > 0
    /\ \/ segmentDistance * 1000 > 550 * timeDiffMs
       \/ segmentDistance * 1000 < 5 * timeDiffMs

\* the FilteredPoint of the sample being processed: the newest buffered point
NewestPoint(f) == f.pointBuffer[Len(f.pointBuffer)]

ZeroResult(f) ==
    Result(0, FALSE, NewestPoint(f).latitude, NewestPoint(f).longitude)

\* lines 263-274: the gate is locked
\* a locked branch that leaves the anchor alone
LockedBranch_NoAnchor(f) ==
    [ filter |-> [f EXCEPT !.dwellCenter =
                               IF @ = Null
                               THEN [lat |-> NewestPoint(f).latitude,
                                     lon |-> NewestPoint(f).longitude]
                               ELSE @],
      result |-> ZeroResult(f) ]

\* a locked branch that records no dwellCenter
LockedBranch_NoDwellCenter(f) ==
    [ filter |-> [f EXCEPT !.lastValidPoint = NewestPoint(f)],
      result |-> ZeroResult(f) ]

LockedBranch(f) ==
    LET point == NewestPoint(f)
    IN  [ filter |-> [f EXCEPT !.dwellCenter =
                                IF @ = Null
                                THEN [lat |-> point.latitude, lon |-> point.longitude]
                                ELSE @,
                             !.lastValidPoint = point],
          result |-> ZeroResult(f) ]

\* a segment counted without moving the anchor on to the sample
CountSegment_AnchorStays(f, segmentDistance) ==
    [ filter |-> f,
      result |-> Result(segmentDistance, TRUE,
                        NewestPoint(f).latitude, NewestPoint(f).longitude) ]

\* lines 358-367: the segment from the anchor to the sample counts
CountSegment(f, segmentDistance) ==
    LET counted == [NewestPoint(f) EXCEPT !.isValidMovement = TRUE,
                                          !.filteredDistance = segmentDistance]
    IN  [ filter |-> [f EXCEPT !.lastValidPoint = counted,
                               !.pointBuffer[Len(f.pointBuffer)] = counted],
          result |-> Result(segmentDistance, TRUE, counted.latitude, counted.longitude) ]

\* a pipeline whose rejections of a segment move the anchor on to the sample
Pipeline_AnchorFollows(f) ==
    LET point == NewestPoint(f)
        zero == ZeroResult(f)
        inDwell == /\ f.dwellCenter # Null
                   /\ haversineDistance(f.dwellCenter.lat, f.dwellCenter.lon,
                                        point.latitude, point.longitude)
                          < DWELL_RADIUS_METERS
        f1 == [f EXCEPT !.dwellCenter = Null]
        moved == [f1 EXCEPT !.lastValidPoint = point]
        positionVariance == calculatePositionVariance(f.recentPositions)
    IN  IF inDwell THEN [filter |-> f, result |-> zero]
        ELSE IF positionVariance < MAX_STATIONARY_VARIANCE /\ Len(f.recentPositions) >= 5
        THEN [filter |-> f1, result |-> zero]
        ELSE IF f.lastValidPoint = Null
        THEN [filter |-> moved, result |-> Result(0, TRUE, point.latitude, point.longitude)]
        ELSE
        LET segmentDistance ==
                haversineDistance(f.lastValidPoint.latitude, f.lastValidPoint.longitude,
                                  point.latitude, point.longitude)
            timeDiffMs == point.timestamp - f.lastValidPoint.timestamp
        IN  IF \/ segmentDistance < MIN_SEGMENT_METERS
               \/ ImplausibleSpeed(segmentDistance, timeDiffMs)
               \/ point.accuracy > MIN_ACCURACY_METERS
               \/ f.consecutiveMovingCount < CONSECUTIVE_MOVING_THRESHOLD
            THEN [filter |-> moved, result |-> zero]
            ELSE CountSegment(f1, segmentDistance)

\* lines 276-367: the gate is unlocked
Pipeline(f) ==
    LET point == NewestPoint(f)
        acc == point.accuracy
        zero == ZeroResult(f)
        inDwell == /\ f.dwellCenter # Null
                   /\ haversineDistance(f.dwellCenter.lat, f.dwellCenter.lon,
                                        point.latitude, point.longitude)
                          < DWELL_RADIUS_METERS
        f1 == [f EXCEPT !.dwellCenter = Null]
        positionVariance == calculatePositionVariance(f.recentPositions)
    IN  IF inDwell THEN [filter |-> f, result |-> zero]
        ELSE IF positionVariance < MAX_STATIONARY_VARIANCE /\ Len(f.recentPositions) >= 5
        THEN [filter |-> f1, result |-> zero]
        ELSE IF f.lastValidPoint = Null
        THEN [ filter |-> [f1 EXCEPT !.lastValidPoint = point],
               result |-> Result(0, TRUE, point.latitude, point.longitude) ]
        ELSE
        LET segmentDistance ==
                haversineDistance(f.lastValidPoint.latitude, f.lastValidPoint.longitude,
                                  point.latitude, point.longitude)
            timeDiffMs == point.timestamp - f.lastValidPoint.timestamp
        IN  IF segmentDistance < MIN_SEGMENT_METERS
            THEN [filter |-> f1, result |-> zero]
            ELSE IF ImplausibleSpeed(segmentDistance, timeDiffMs)
            THEN [filter |-> f1, result |-> zero]
            ELSE IF acc > MIN_ACCURACY_METERS
            THEN [filter |-> f1, result |-> zero]
            ELSE IF f.consecutiveMovingCount < CONSECUTIVE_MOVING_THRESHOLD
            THEN [filter |-> f1, result |-> zero]
            ELSE CountSegment(f1, segmentDistance)

\* a gate check that lets a locked filter into the pipeline
Accumulate_NoLockGuard(f) == Pipeline(f)

\* lines 263-367: what processPoint does after checkStationaryLock. f is the
\* filter after the lock check. Gives the filter and the returned value.
Accumulate(f) ==
    IF f.isStationaryLocked THEN LockedBranch(f) ELSE Pipeline(f)

\* lines 218-261 for a sample with valid coordinates: the filter once the
\* sample is filtered, classified and buffered and the lock check has run
Buffered(f, latitude, longitude, timestamp, accuracy, speed, motionConfidence) ==
    LET acc == IF accuracy = undefined THEN 200 ELSE accuracy
        spd == IF speed = undefined THEN 0 ELSE speed
        ks == applyKalmanFilter(f.kalmanState, latitude, longitude, acc, timestamp)
        point == [ latitude |-> ks.lat, longitude |-> ks.lon,
                   timestamp |-> timestamp, accuracy |-> acc, speed |-> spd,
                   isValidMovement |-> FALSE, filteredDistance |-> 0,
                   rawLatitude |-> latitude, rawLongitude |-> longitude ]
        f1 == [f EXCEPT !.kalmanState = ks,
                        !.recentPositions =
                            PushCapped(@, [lat |-> ks.lat, lon |-> ks.lon,
                                           timestamp |-> timestamp],
                                       VARIANCE_WINDOW_SIZE)]
        f2 == UpdateCounters(f1, spd, motionConfidence)
        f3 == [f2 EXCEPT !.pointBuffer = PushCapped(@, point, BUFFER_SIZE)]
    IN  CHOOSE checked \in { checkStationaryLock(g) : g \in {f3} } : TRUE

\* a processPoint that classifies the sample before it validates it
processPoint_ValidatesLate(f, latitude, longitude, timestamp, accuracy, speed, motionConfidence) ==
    IF ~isValidCoordinate(latitude, longitude)
    THEN [ filter |-> UpdateCounters(f, IF speed = undefined THEN 0 ELSE speed,
                                     motionConfidence),
           result |-> Result(0, FALSE, latitude, longitude) ]
    ELSE CHOOSE out \in
             { Accumulate(buffered) :
                 buffered \in { Buffered(f, latitude, longitude, timestamp,
                                         accuracy, speed, motionConfidence) } } : TRUE

\* Gives the filter after the call and the returned value.
processPoint(f, latitude, longitude, timestamp, accuracy, speed, motionConfidence) ==
    IF ~isValidCoordinate(latitude, longitude)
    THEN [filter |-> f, result |-> Result(0, FALSE, latitude, longitude)]
    ELSE CHOOSE out \in
             { Accumulate(buffered) :
                 buffered \in { Buffered(f, latitude, longitude, timestamp,
                                         accuracy, speed, motionConfidence) } } : TRUE

(***************************************************************************)
(* calculateFilteredDistance: the batch recomputer                         *)
(***************************************************************************)
\* [...points].sort((a, b) => a.timestamp - b.timestamp): a stable sort
RECURSIVE InsertByTimestamp(_, _)
InsertByTimestamp(sorted, p) ==
    IF sorted = <<>> THEN <<p>>
    ELSE IF Head(sorted).timestamp <= p.timestamp
         THEN <<Head(sorted)>> \o InsertByTimestamp(Tail(sorted), p)
         ELSE <<p>> \o sorted

RECURSIVE SortByTimestamp(_)
SortByTimestamp(points) ==
    IF points = <<>> THEN <<>>
    ELSE InsertByTimestamp(SortByTimestamp(SubSeq(points, 1, Len(points) - 1)),
                           points[Len(points)])

\* the haversine helper of calculateFilteredDistance, with its own
\* isValidCoordinate
haversine(lat1, lon1, lat2, lon2) ==
    IF ~isValidCoordinate(lat1, lon1) \/ ~isValidCoordinate(lat2, lon2)
    THEN 0
    ELSE LET dLat == lat2 - lat1
             dLon == lon2 - lon1
         IN  Sqrt(dLat * dLat + dLon * dLon)

RECURSIVE SumLatitude(_)
SumLatitude(ps) == IF ps = <<>> THEN 0 ELSE Head(ps).latitude + SumLatitude(Tail(ps))

RECURSIVE SumLongitude(_)
SumLongitude(ps) == IF ps = <<>> THEN 0 ELSE Head(ps).longitude + SumLongitude(Tail(ps))

RECURSIVE SumSqDistPoints(_, _, _)
SumSqDistPoints(ps, cLat, cLon) ==
    IF ps = <<>> THEN 0
    ELSE LET dist == haversine(cLat, cLon, Head(ps).latitude, Head(ps).longitude)
         IN  dist * dist + SumSqDistPoints(Tail(ps), cLat, cLon)

\* calculateVariance(pts) of the batch recomputer
calculateVariance(pts) ==
    IF Len(pts) < 3 THEN 0
    ELSE LET centroidLat == SumLatitude(pts) \div Len(pts)
             centroidLon == SumLongitude(pts) \div Len(pts)
             totalVar == SumSqDistPoints(pts, centroidLat, centroidLon)
         IN  Sqrt(totalVar \div Len(pts))

\* the local constants of calculateFilteredDistance, in model units
BATCH_MIN_SEGMENT_METERS == 50
BATCH_MAX_ACCURACY_METERS == 500
BATCH_VARIANCE_WINDOW == 8
BATCH_MAX_VARIANCE_METERS == 200

\* speedKmh < MIN_SPEED_KMH (1 km/h) or speedKmh > MAX_SPEED_KMH (200 km/h),
\* with speedKmh = (metres / 1000) / (ms / 3600000)
BatchImplausibleSpeed(segmentDistance, timeDiffMs) ==
    /\ timeDiffMs > 0
    /\ \/ segmentDistance * 360 < 1 * timeDiffMs
       \/ segmentDistance * 360 > 200 * timeDiffMs

\* the loop variables before the first iteration (lines 411, 419-422)
BatchStart ==
    [ totalDistance |-> 0, lastValidPoint |-> Null,
      stationaryCount |-> 0, movingCount |-> 0, recentPoints |-> <<>> ]

\* one iteration of the loop at lines 463-523
BatchStep(st, point) ==
    IF point.latitude = 0 /\ point.longitude = 0 THEN st
    ELSE IF ~isValidCoordinate(point.latitude, point.longitude) THEN st
    ELSE
    LET accuracy == IF point.accuracy = undefined THEN 200 ELSE point.accuracy
    IN  IF accuracy > BATCH_MAX_ACCURACY_METERS THEN st
        ELSE
        LET recentPoints == PushCapped(st.recentPoints, point, BATCH_VARIANCE_WINDOW)
            st1 == [st EXCEPT !.recentPoints = recentPoints]
            variance == calculateVariance(recentPoints)
            stationary == [st1 EXCEPT !.stationaryCount = @ + 1, !.movingCount = 0]
            st2 == [st1 EXCEPT !.movingCount = @ + 1, !.stationaryCount = 0]
        IN  IF variance < BATCH_MAX_VARIANCE_METERS /\ Len(recentPoints) >= 5
            THEN stationary
            ELSE IF point.isStationary = "true" THEN stationary
            ELSE IF st2.movingCount < 3
            THEN [st2 EXCEPT !.lastValidPoint = point]
            ELSE IF st2.lastValidPoint = Null
            THEN [st2 EXCEPT !.lastValidPoint = point]
            ELSE
            LET segmentDistanceMeters ==
                    haversine(st2.lastValidPoint.latitude,
                              st2.lastValidPoint.longitude,
                              point.latitude, point.longitude)
                timeDiffMs == point.timestamp - st2.lastValidPoint.timestamp
            IN  IF segmentDistanceMeters < BATCH_MIN_SEGMENT_METERS THEN st2
                ELSE IF BatchImplausibleSpeed(segmentDistanceMeters, timeDiffMs) THEN st2
                ELSE [st2 EXCEPT !.totalDistance = @ + segmentDistanceMeters,
                                 !.lastValidPoint = point]

RECURSIVE BatchLoop(_, _)
BatchLoop(st, sortedPoints) ==
    IF sortedPoints = <<>> THEN st
    ELSE BatchLoop(BatchStep(st, Head(sortedPoints)), Tail(sortedPoints))

calculateFilteredDistance(points) ==
    IF Len(points) < 2 THEN 0
    ELSE BatchLoop(BatchStart, SortByTimestamp(points)).totalDistance

(***************************************************************************)
(* useMotionDetection, the globalMotion* values and analyzeGPSMotion       *)
(* confidences of this part are in thousandths; an accelerometer reading   *)
(* is given by its deviation |magnitude - 1.0| in thousandths of g         *)
(***************************************************************************)
STILLNESS_THRESHOLD == 20
MOVEMENT_THRESHOLD == 50
WINDOW_SIZE == 20
GPS_BUFFER_SIZE == 10

\* state after module load and the first render of useMotionDetection
NewMotion ==
    [ state |-> [isMoving |-> TRUE, motionState |-> "unknown", motionConfidence |-> 500],
      magnitudeBuffer |-> <<>>,
      hookSmoothedConfidence |-> 500,
      subscription |-> FALSE,
      globalMotionState |-> "unknown",
      globalIsMoving |-> TRUE,
      globalMotionConfidence |-> 500,
      gpsMotionBuffer |-> <<>>,
      smoothedConfidence |-> 0 ]

RECURSIVE SumSeq(_)
SumSeq(xs) == IF xs = <<>> THEN 0 ELSE Head(xs) + SumSeq(Tail(xs))

RECURSIVE SumSqDev(_, _)
SumSqDev(xs, avg) ==
    IF xs = <<>> THEN 0
    ELSE (Head(xs) - avg) * (Head(xs) - avg) + SumSqDev(Tail(xs), avg)

\* setGlobalMotionState(state, isMoving, confidence)
setGlobalMotionState(m, state, isMoving, confidence) ==
    [m EXCEPT !.globalMotionState = state,
              !.globalIsMoving = isMoving,
              !.globalMotionConfidence =
                  IF confidence # undefined THEN confidence ELSE @]

\* processAcceleration(data), followed by the effect of useTrip that copies
\* the new hook state into the globals
processAcceleration(m, deviation) ==
    LET buffer == PushCapped(m.magnitudeBuffer, deviation, WINDOW_SIZE)
        m1 == [m EXCEPT !.magnitudeBuffer = buffer]
        avgDeviation == SumSeq(buffer) \div Len(buffer)
        variance == SumSqDev(buffer, avgDeviation) \div Len(buffer)
        stdDev == Sqrt(variance)
        activityLevel == avgDeviation + stdDev * 2
        rawConfidence ==
            IF activityLevel < STILLNESS_THRESHOLD THEN 0
            ELSE IF activityLevel > MOVEMENT_THRESHOLD THEN 1000
            ELSE ((activityLevel - STILLNESS_THRESHOLD) * 1000)
                     \div (MOVEMENT_THRESHOLD - STILLNESS_THRESHOLD)
        smoothed == (m.hookSmoothedConfidence * 7 + rawConfidence * 3) \div 10
        newState == [ isMoving |-> smoothed > 300,
                      motionState |-> IF smoothed < 200 THEN "stationary"
                                      ELSE IF smoothed > 500 THEN "moving"
                                      ELSE "unknown",
                      motionConfidence |-> smoothed ]
    IN  IF Len(buffer) < 5 THEN m1
        ELSE setGlobalMotionState(
                 [m1 EXCEPT !.hookSmoothedConfidence = smoothed, !.state = newState],
                 newState.motionState, newState.isMoving, newState.motionConfidence)

\* startMotionDetection() on a device with an accelerometer
startMotionDetection(m) == [m EXCEPT !.subscription = TRUE]

\* stopMotionDetection(): no setState, so the hook state and the globals stay
stopMotionDetection(m) ==
    [m EXCEPT !.subscription = FALSE, !.magnitudeBuffer = <<>>,
              !.hookSmoothedConfidence = 500]

resetGPSMotionBuffer(m) ==
    [m EXCEPT !.gpsMotionBuffer = <<>>, !.smoothedConfidence = 0]

\* the module's own haversineDistance: no validity check, so a NaN
\* coordinate gives NaN
motionHaversineDistance(lat1, lon1, lat2, lon2) ==
    IF lat1 = NaN \/ lon1 = NaN \/ lat2 = NaN \/ lon2 = NaN
    THEN NaN
    ELSE LET dLat == lat2 - lat1
             dLon == lon2 - lon1
         IN  Sqrt(dLat * dLat + dLon * dLon)

RECURSIVE TotalPathDistance(_)
TotalPathDistance(buf) ==
    IF Len(buf) < 2 THEN 0
    ELSE LET segment == motionHaversineDistance(buf[1].latitude, buf[1].longitude,
                                                buf[2].latitude, buf[2].longitude)
             rest == TotalPathDistance(Tail(buf))
         IN  IF segment = NaN \/ rest = NaN THEN NaN ELSE segment + rest

\* sum of (p.accuracy || 25)
RECURSIVE SumAccuracyOr25(_)
SumAccuracyOr25(buf) ==
    IF buf = <<>> THEN 0
    ELSE (IF Head(buf).accuracy = undefined \/ Head(buf).accuracy = 0
          THEN 250 ELSE Head(buf).accuracy)
         + SumAccuracyOr25(Tail(buf))

\* the device-speed confidence without its Math.min cap
gpsGeometryConfidence_NoCap(buf, location) ==
    IF location.speed # undefined /\ location.speed >= 5
    THEN 500 + location.speed * 30
    ELSE 0

\* rawConfidence before the fusion (lines 201-226), in thousandths: what the
\* buffered fixes and the device speed say by themselves
gpsGeometryConfidence(buf, location) ==
    LET oldest == buf[1]
        newest == buf[Len(buf)]
        netDisplacement == motionHaversineDistance(oldest.latitude, oldest.longitude,
                                                   newest.latitude, newest.longitude)
        windowTimeMs == newest.timestamp - oldest.timestamp
        totalPathDistance == TotalPathDistance(buf)
        sumAccuracy == SumAccuracyOr25(buf)
        hasDeviceSpeed == location.speed # undefined /\ location.speed >= 0
        deviceSpeed == IF hasDeviceSpeed THEN location.speed ELSE 0
        \* metres per second, in thousandths
        netSpeed == IF windowTimeMs > 0
                    THEN IF netDisplacement = NaN THEN NaN
                         ELSE (netDisplacement * 100000) \div windowTimeMs
                    ELSE 0
        \* NaN > 0 is false; a NaN net displacement makes the path NaN too
        straightness == IF totalPathDistance # NaN /\ totalPathDistance > 0
                        THEN (netDisplacement * 1000) \div totalPathDistance ELSE 0
    IN  IF hasDeviceSpeed /\ deviceSpeed >= 5
        THEN Min(950, 500 + deviceSpeed * 30)
        ELSE IF /\ netDisplacement # NaN
                /\ netDisplacement * 2 * Len(buf) > sumAccuracy * 3
                /\ straightness >= 500
                /\ netSpeed >= 300
        THEN Min(900, (straightness * 6) \div 10 + (netSpeed * 2) \div 10)
        ELSE IF /\ netDisplacement # NaN
                /\ netDisplacement * Len(buf) > sumAccuracy
                /\ straightness >= 300
                /\ netSpeed >= 200
        THEN Min(700, (straightness * 5) \div 10 + (netSpeed * 3) \div 10)
        ELSE IF netSpeed # NaN /\ netSpeed >= 300
        THEN Min(500, (netSpeed * 4) \div 10 + (straightness * 3) \div 10)
        ELSE 0

\* analyzeGPSMotion(location, accelerometerConfidence)
analyzeGPSMotion(m, location, accelerometerConfidence) ==
    LET buf == PushCapped(m.gpsMotionBuffer, location, GPS_BUFFER_SIZE)
        rawGPS == CHOOSE c \in { gpsGeometryConfidence(b, location) : b \in {buf} } :
                      TRUE
        hasAccelerometer ==
            accelerometerConfidence # undefined /\ accelerometerConfidence > 0
        rawConfidence == IF hasAccelerometer
                         THEN (rawGPS * 4 + accelerometerConfidence * 6) \div 10
                         ELSE rawGPS
        smoothed == (m.smoothedConfidence + rawConfidence) \div 2
    IN  IF Len(buf) < 3
        THEN [ motion |-> [m EXCEPT !.gpsMotionBuffer = buf, !.smoothedConfidence = 0],
               isStationary |-> TRUE, motionConfidence |-> 0 ]
        ELSE [ motion |-> [m EXCEPT !.gpsMotionBuffer = buf,
                                    !.smoothedConfidence = smoothed],
               isStationary |-> smoothed < 250, motionConfidence |-> smoothed ]

\* the watchPositionAsync callback of startLocationTracking from the
\* motionInfo update on, given what analyzeGPSMotion returned
Callback(m, f, location, gpsMotion) ==
    LET confidence == IF m.globalMotionState = "unknown"
                      THEN gpsMotion.motionConfidence
                      ELSE Max(m.globalMotionConfidence, gpsMotion.motionConfidence)
        \* the filter only compares the confidence with 0.3 and 0.6
        r == processPoint(f, location.latitude, location.longitude,
                          location.timestamp, location.accuracy, location.speed,
                          confidence \div 100)
    IN  [ motion |-> gpsMotion.motion, filter |-> r.filter, result |-> r.result,
          motionConfidence |-> confidence ]

\* the watchPositionAsync callback of startLocationTracking, up to the
\* processPoint call: the engine after the fix, and the filter's result
OnLocation(m, f, location) ==
    LET accelConfidence == IF m.globalMotionState # "unknown"
                           THEN m.globalMotionConfidence ELSE undefined
        \* location.coords.accuracy || undefined
        accuracy == IF location.accuracy = 0 THEN undefined ELSE location.accuracy
        fix == [location EXCEPT !.accuracy = accuracy]
    IN  CHOOSE out \in { Callback(m, f, fix, gpsMotion) :
                           gpsMotion \in {analyzeGPSMotion(m, fix, accelConfidence)} } :
            TRUE

(***************************************************************************)
(* The streaming filter driven by a location provider                      *)
(***************************************************************************)
\* bounds of the model
MaxSamples == 4

\* what the location provider can deliver in one fix
\* displacement since the last fix: none, or 20 m ahead
Steps == {0, 200}
\* device speed and motion confidence: moving at 4 m/s, or no speed at all
Signals == { [speed |-> 40, motionConfidence |-> 8],
             [speed |-> undefined, motionConfidence |-> 2] }
\* reported accuracy: absent, or 60 m
Accuracies == {undefined, 600}
\* the provider's update interval (timeInterval of watchPositionAsync)
Intervals == {5000, 10000}
\* latitudes no coordinate can have: 200 degrees, NaN
BadLatitudes == {222390000, NaN}

StartLat == 1000
StartLon == 1000

NoCall == [op |-> "new", valid |-> FALSE, wasLocked |-> TRUE,
           in |-> Null, gate |-> Null, result |-> Null]

Init ==
    /\ globalFilter = NewGPSFilter
    /\ \E interval \in Intervals :
           device = [lat |-> StartLat, lon |-> StartLon, time |-> 0,
                     interval |-> interval]
    /\ last = NoCall
    /\ total = 0
    /\ fed = 0
    /\ stored = <<>>
    /\ batch = NoBatch
    /\ motion = NewMotion
    /\ trip = NoTrip

\* one location fix handed to getGPSFilter().processPoint
Feed(latitude, longitude, timestamp, accuracy, speed, motionConfidence) ==
    LET valid == isValidCoordinate(latitude, longitude)
    IN  \E r \in { processPoint(globalFilter, latitude, longitude, timestamp,
                                accuracy, speed, motionConfidence) },
           checked \in { IF valid
                         THEN Buffered(globalFilter, latitude, longitude, timestamp,
                                       accuracy, speed, motionConfidence)
                         ELSE globalFilter } :
        /\ globalFilter' = r.filter
        /\ last' = [ op |-> "point",
                     valid |-> valid,
                     wasLocked |-> globalFilter.isStationaryLocked,
                     gate |-> [ locked |-> checked.isStationaryLocked,
                                dwellCenter |-> checked.dwellCenter ],
                     in |-> [ latitude |-> latitude, longitude |-> longitude,
                              timestamp |-> timestamp, accuracy |-> accuracy,
                              speed |-> speed, motionConfidence |-> motionConfidence ],
                     result |-> r.result ]
        /\ total' = total + r.result.distance
        /\ fed' = fed + 1
        /\ UNCHANGED <<batchVars, tripVars>>

\* the device after a fix `step` further on, one update interval later
Moved(step) ==
    [device EXCEPT !.lat = @ + step, !.time = @ + device.interval]

ProcessPoint ==
    \E step \in Steps, accuracy \in Accuracies, signal \in Signals :
        /\ fed < MaxSamples
        /\ Feed(Moved(step).lat, device.lon, Moved(step).time,
                accuracy, signal.speed, signal.motionConfidence)
        /\ device' = Moved(step)

ProcessInvalidPoint ==
    \E latitude \in BadLatitudes :
        /\ fed < MaxSamples
        /\ Feed(latitude, device.lon, Moved(0).time, 100, 40, 8)
        /\ device' = Moved(0)

\* GPSFilter.reset() on the current instance
Reset ==
    /\ last.op = "point"
    /\ globalFilter' = reset(globalFilter)
    /\ last' = [NoCall EXCEPT !.op = "reset"]
    /\ total' = 0
    /\ UNCHANGED <<device, fed, stored, batch, motion, trip>>

\* resetGPSFilter(): reset() on the old instance, then a new instance
ResetGPSFilter ==
    /\ last.op = "point"
    /\ globalFilter' = NewGPSFilter
    /\ last' = [NoCall EXCEPT !.op = "resetGPSFilter"]
    /\ total' = 0
    /\ UNCHANGED <<device, fed, stored, batch, motion, trip>>

Next ==
    \/ ProcessPoint
    \/ ProcessInvalidPoint
    \/ Reset
    \/ ResetGPSFilter

Spec == Init /\ [][Next]_vars

(***************************************************************************)
(* A parked device: every fix within 5 m of one point                      *)
(***************************************************************************)
MaxParked == 5

\* GPS jitter: the raw fix is 5 m north, south, east or west of the spot
Jitter == { [lat |-> 50, lon |-> 0], [lat |-> -50, lon |-> 0],
            [lat |-> 0, lon |-> 50], [lat |-> 0, lon |-> -50] }

\* the device reports one speed and motion confidence throughout
InitParked ==
    /\ globalFilter = NewGPSFilter
    /\ \E signal \in Signals :
           device = [lat |-> StartLat, lon |-> StartLon, time |-> 0,
                     interval |-> 5000, signal |-> signal]
    /\ last = NoCall
    /\ total = 0
    /\ fed = 0
    /\ stored = <<>>
    /\ batch = NoBatch
    /\ motion = NewMotion
    /\ trip = NoTrip

ParkedPoint ==
    \E j \in Jitter, accuracy \in Accuracies :
        /\ fed < MaxParked
        /\ Feed(StartLat + j.lat, StartLon + j.lon, Moved(0).time,
                accuracy, device.signal.speed, device.signal.motionConfidence)
        /\ device' = [Moved(0) EXCEPT !.lat = StartLat + j.lat,
                                      !.lon = StartLon + j.lon]

NextParked == ParkedPoint

SpecParked == InitParked /\ [][NextParked]_vars

(***************************************************************************)
(* A steady walk: every fix 20 m further on, 5 s after the last            *)
(***************************************************************************)
MaxWalk == 10

\* fixes with speed >= 0.4 m/s, accuracy <= 50 m and confidence >= 0.6:
\* a good fix, and one with all three at their limits
WalkFixes == { [accuracy |-> 100, speed |-> 40, motionConfidence |-> 10],
               [accuracy |-> 500, speed |-> 4, motionConfidence |-> 6] }

WalkPoint ==
    \E fix \in WalkFixes :
        /\ fed < MaxWalk
        /\ Feed(Moved(200).lat, device.lon, Moved(200).time,
                fix.accuracy, fix.speed, fix.motionConfidence)
        /\ device' = Moved(200)

NextWalk == WalkPoint

InitWalk ==
    /\ globalFilter = NewGPSFilter
    /\ device = [lat |-> StartLat, lon |-> StartLon, time |-> 0, interval |-> 5000]
    /\ last = NoCall
    /\ total = 0
    /\ fed = 0
    /\ stored = <<>>
    /\ batch = NoBatch
    /\ motion = NewMotion
    /\ trip = NoTrip

SpecWalk == InitWalk /\ [][NextWalk]_vars

(***************************************************************************)
(* The batch recomputer called on a stored trip                            *)
(***************************************************************************)
MaxBatch == 4
MaxCalls == 2


\* stored points: at either end of a 10 m wide cluster or 35 m away, at one
\* of three times, with no accuracy and no isStationary flag
PlainPoints ==
    { [ latitude |-> lat, longitude |-> StartLon, timestamp |-> ts,
        accuracy |-> undefined, isStationary |-> "undefined" ] :
      lat \in {StartLat - 50, StartLat + 50, StartLat + 300},
      ts \in {5000, 10000, 15000} }

\* a point flagged stationary, a coarse fix, and the point (0,0)
SpecialPoints ==
    { [ latitude |-> StartLat + 300, longitude |-> StartLon, timestamp |-> 10000,
        accuracy |-> undefined, isStationary |-> "true" ],
      [ latitude |-> StartLat + 300, longitude |-> StartLon, timestamp |-> 10000,
        accuracy |-> 600, isStationary |-> "false" ],
      [ latitude |-> 0, longitude |-> 0, timestamp |-> 10000,
        accuracy |-> undefined, isStationary |-> "undefined" ] }

StoredPoints == PlainPoints \cup SpecialPoints

InitBatch ==
    /\ globalFilter = NewGPSFilter
    /\ device = [lat |-> StartLat, lon |-> StartLon, time |-> 0, interval |-> 5000]
    /\ last = NoCall
    /\ total = 0
    /\ fed = 0
    /\ \E n \in 1..MaxBatch : stored \in [1..n -> StoredPoints]
    /\ batch = NoBatch
    /\ motion = NewMotion
    /\ trip = NoTrip

\* calculateFilteredDistance(stored): the array is copied, not sorted in place
Recompute ==
    /\ batch.calls < MaxCalls
    /\ LET t == calculateFilteredDistance(stored)
       IN  batch' = [ calls |-> batch.calls + 1,
                      first |-> IF batch.calls = 0 THEN t ELSE batch.first,
                      latest |-> t ]
    /\ UNCHANGED stored
    /\ UNCHANGED <<streamVars, tripVars>>

\* the caller hands over the same points in another order
Reorder ==
    /\ batch.calls = 1
    /\ \E i \in 1..(Len(stored) - 1) :
           /\ stored[i] # stored[i + 1]
           /\ stored' = [stored EXCEPT ![i] = stored[i + 1], ![i + 1] = stored[i]]
    /\ UNCHANGED batch
    /\ UNCHANGED <<streamVars, tripVars>>

NextBatch == Recompute \/ Reorder

SpecBatch == InitBatch /\ [][NextBatch]_vars

(***************************************************************************)
(* Trips: startTrip, the accelerometer and location callbacks, endTrip     *)
(***************************************************************************)
MaxTrips == 2
MaxFixes == 4
MaxReadings == 5

\* the device lies still, or is shaken by 0.1 g, for the whole run
Shakes == {0, 100}
\* speeds a fix can report: 4 m/s, or none
FixSpeeds == {40, undefined}

InitTrip ==
    /\ globalFilter = NewGPSFilter
    /\ \E shake \in Shakes :
           device = [lat |-> StartLat, lon |-> StartLon, time |-> 0,
                     interval |-> 5000, shake |-> shake]
    /\ last = NoCall
    /\ total = 0
    /\ fed = 0
    /\ stored = <<>>
    /\ batch = NoBatch
    /\ motion = NewMotion
    /\ trip = NoTrip

\* startTrip(): the initial point, startMotionDetection(), and the resets at
\* the head of startLocationTracking()
StartTrip ==
    /\ ~trip.active
    /\ trip.number < MaxTrips
    /\ motion' = resetGPSMotionBuffer(startMotionDetection(motion))
    /\ globalFilter' = NewGPSFilter
    /\ trip' = [active |-> TRUE, number |-> trip.number + 1,
                samples |-> <<>>, outputs |-> <<>>]
    /\ stored' = << [ latitude |-> device.lat, longitude |-> device.lon,
                      timestamp |-> device.time, accuracy |-> 100,
                      isStationary |-> "undefined" ] >>
    /\ total' = 0
    /\ fed' = 0
    /\ last' = [NoCall EXCEPT !.op = "startTrip"]
    /\ UNCHANGED <<device, batch>>

\* one accelerometer reading
Accelerometer ==
    /\ motion.subscription
    /\ Len(motion.magnitudeBuffer) < MaxReadings
    /\ motion' = processAcceleration(motion, device.shake)
    /\ UNCHANGED <<streamVars, batchVars, trip>>

\* the watchPositionAsync callback run on one fix
DeliverFix(location) ==
    \E r \in {OnLocation(motion, globalFilter, location)} :
        /\ trip.active
        /\ fed < MaxFixes
        /\ motion' = r.motion
        /\ globalFilter' = r.filter
        /\ last' = [ op |-> "point",
                     valid |-> isValidCoordinate(location.latitude,
                                                 location.longitude),
                     wasLocked |-> globalFilter.isStationaryLocked,
                     gate |-> [ locked |-> r.filter.isStationaryLocked,
                                dwellCenter |-> r.filter.dwellCenter ],
                     in |-> [ latitude |-> location.latitude,
                              longitude |-> location.longitude,
                              timestamp |-> location.timestamp,
                              accuracy |-> location.accuracy,
                              speed |-> location.speed,
                              motionConfidence |-> r.motionConfidence \div 100 ],
                     result |-> r.result ]
        /\ stored' = Append(stored,
                         [ latitude |-> location.latitude,
                           longitude |-> location.longitude,
                           timestamp |-> location.timestamp,
                           accuracy |-> location.accuracy,
                           isStationary |-> IF r.result.isMoving
                                            THEN "false" ELSE "true" ])
        /\ total' = total + r.result.distance
        /\ fed' = fed + 1
        /\ trip' = [trip EXCEPT !.samples = Append(@, location),
                                !.outputs = Append(@, r.result)]
        /\ UNCHANGED batch

\* one fix delivered to the watchPositionAsync callback
LocationUpdate ==
    \E step \in Steps, speed \in FixSpeeds :
        /\ DeliverFix([ latitude |-> Moved(step).lat, longitude |-> device.lon,
                        timestamp |-> Moved(step).time, accuracy |-> 100,
                        speed |-> speed ])
        /\ device' = Moved(step)

\* endTrip(): both subscriptions removed, the filter reset, the trip's
\* distance recomputed from its stored points
EndTrip ==
    /\ trip.active
    /\ fed >= 1
    /\ motion' = stopMotionDetection(motion)
    /\ globalFilter' = NewGPSFilter
    /\ total' = calculateFilteredDistance(stored)
    /\ stored' = <<>>
    /\ trip' = [trip EXCEPT !.active = FALSE]
    /\ last' = [NoCall EXCEPT !.op = "endTrip"]
    /\ UNCHANGED <<device, fed, batch>>

NextTrip == StartTrip \/ Accelerometer \/ LocationUpdate \/ EndTrip

SpecTrip == InitTrip /\ [][NextTrip]_vars

(***************************************************************************)
(* The position estimator fed fixes of any accuracy                        *)
(***************************************************************************)
MaxEstimates == 4

\* reported accuracy: absent, 0.1 m, 120 m
EstimatorAccuracies == {undefined, 1, 1200}

EstimatorPoint ==
    \E step \in Steps, accuracy \in EstimatorAccuracies :
        /\ fed < MaxEstimates
        /\ Feed(Moved(step).lat, device.lon, Moved(step).time, accuracy, 40, 8)
        /\ device' = Moved(step)

NextEstimator == EstimatorPoint

SpecEstimator == Init /\ [][NextEstimator]_vars

(***************************************************************************)
(* A walk that comes to a stop: a lead of good fixes 20 m and 5 s apart,   *)
(* then fixes at the place of the last one, with or without a speed        *)
(***************************************************************************)
MaxStop == 14
\* the fixes of the lead, enough for the gate to unlock
LeadFixes == 4
\* the provider delivers every 5 s, but for MaxGaps fixes that come 20 s late
MaxGaps == 1

InitStop ==
    /\ globalFilter = NewGPSFilter
    /\ device = [lat |-> StartLat, lon |-> StartLon, time |-> 0,
                 interval |-> 5000, gaps |-> 0]
    /\ last = NoCall
    /\ total = 0
    /\ fed = 0
    /\ stored = <<>>
    /\ batch = NoBatch
    /\ motion = NewMotion
    /\ trip = NoTrip

LeadPoint ==
    /\ fed < LeadFixes
    /\ Feed(Moved(200).lat, device.lon, Moved(200).time, 100, 40, 10)
    /\ device' = Moved(200)

StopPoint ==
    \E signal \in Signals :
        /\ fed >= LeadFixes
        /\ fed < MaxStop
        /\ Feed(device.lat, device.lon, Moved(0).time,
                100, signal.speed, signal.motionConfidence)
        /\ device' = Moved(0)

LateStopPoint ==
    \E signal \in Signals :
        /\ fed >= LeadFixes
        /\ fed < MaxStop
        /\ device.gaps < MaxGaps
        /\ Feed(device.lat, device.lon, device.time + 20000,
                100, signal.speed, signal.motionConfidence)
        /\ device' = [device EXCEPT !.time = @ + 20000, !.gaps = @ + 1]

NextStop == LeadPoint \/ StopPoint \/ LateStopPoint \/ Reset

SpecStop == InitStop /\ [][NextStop]_vars

(***************************************************************************)
(* A provider that now and then reports the coordinate (0,0)               *)
(***************************************************************************)
MaxZero == 4

\* a fix at the device's place or 20 m further on
NearPoint ==
    \E step \in Steps, signal \in Signals :
        /\ fed < MaxZero
        /\ Feed(Moved(step).lat, device.lon, Moved(step).time,
                100, signal.speed, signal.motionConfidence)
        /\ device' = Moved(step)

\* a fix at latitude 0, longitude 0
ZeroPoint ==
    \E signal \in Signals :
        /\ fed < MaxZero
        /\ Feed(0, 0, Moved(0).time, 100, signal.speed, signal.motionConfidence)
        /\ device' = Moved(0)

NextZero == NearPoint \/ ZeroPoint

SpecZero == Init /\ [][NextZero]_vars

(***************************************************************************)
(* A trip whose provider now and then delivers a fix without a latitude    *)
(***************************************************************************)
\* a fix whose latitude is NaN, at the device's place and speed
GlitchUpdate ==
    \E speed \in FixSpeeds :
        /\ DeliverFix([ latitude |-> NaN, longitude |-> device.lon,
                        timestamp |-> Moved(0).time, accuracy |-> 100,
                        speed |-> speed ])
        /\ device' = Moved(0)

NextGlitch == StartTrip \/ LocationUpdate \/ GlitchUpdate

SpecGlitch == InitTrip /\ [][NextGlitch]_vars

(***************************************************************************)
(* analyzeGPSMotion called with and without an accelerometer confidence    *)
(***************************************************************************)
MaxAnalyses == 4
\* the accelerometerConfidence argument: absent, 0, 1
AccelerometerConfidences == {undefined, 0, 1000}

AnalyzeFix ==
    \E step \in Steps, speed \in FixSpeeds,
       accelerometerConfidence \in AccelerometerConfidences :
        LET location == [ latitude |-> Moved(step).lat, longitude |-> device.lon,
                          timestamp |-> Moved(step).time, accuracy |-> 100,
                          speed |-> speed ]
        IN  \E r \in {analyzeGPSMotion(motion, location, accelerometerConfidence)} :
            /\ fed < MaxAnalyses
            /\ motion' = r.motion
            /\ last' = [ op |-> "analyzeGPSMotion",
                         in |-> [ location |-> location,
                                  accelerometerConfidence |-> accelerometerConfidence ],
                         result |-> [ isStationary |-> r.isStationary,
                                      motionConfidence |-> r.motionConfidence ] ]
            /\ fed' = fed + 1
            /\ device' = Moved(step)
            /\ UNCHANGED <<globalFilter, total, batchVars, trip>>

\* resetGPSMotionBuffer() between two calls
ClearBuffer ==
    /\ last.op = "analyzeGPSMotion"
    /\ motion' = resetGPSMotionBuffer(motion)
    /\ last' = [NoCall EXCEPT !.op = "resetGPSMotionBuffer"]
    /\ UNCHANGED <<globalFilter, device, total, fed, batchVars, trip>>

\* what the accelerometer hook can have published when a fix arrives
\* (part_010 lines 90-96): state unknown at 0.5, stationary at 0, moving at 1
HookReports == { [state |-> "unknown", isMoving |-> TRUE, confidence |-> 500],
                 [state |-> "stationary", isMoving |-> FALSE, confidence |-> 0],
                 [state |-> "moving", isMoving |-> TRUE, confidence |-> 1000] }

\* the hook state is copied into the globals, then a fix 20 m further on,
\* without a device speed, goes through the location callback
HookedFix ==
    \E speed \in {undefined}, hook \in HookReports :
        LET location == [ latitude |-> Moved(200).lat, longitude |-> device.lon,
                          timestamp |-> Moved(200).time, accuracy |-> 100,
                          speed |-> speed ]
        IN  \E r \in { OnLocation(setGlobalMotionState(motion, hook.state,
                                                       hook.isMoving, hook.confidence),
                                  globalFilter, location) } :
            /\ fed < MaxAnalyses
            /\ motion' = r.motion
            /\ globalFilter' = r.filter
            /\ last' = [ op |-> "point", valid |-> TRUE,
                         wasLocked |-> globalFilter.isStationaryLocked,
                         gate |-> [ locked |-> r.filter.isStationaryLocked,
                                    dwellCenter |-> r.filter.dwellCenter ],
                         in |-> [ latitude |-> location.latitude,
                                  longitude |-> location.longitude,
                                  timestamp |-> location.timestamp,
                                  accuracy |-> location.accuracy,
                                  speed |-> speed,
                                  motionConfidence |-> r.motionConfidence \div 100 ],
                         result |-> r.result ]
            /\ total' = total + r.result.distance
            /\ fed' = fed + 1
            /\ device' = Moved(200)
            /\ UNCHANGED <<batchVars, trip>>

NextFusion == AnalyzeFix \/ ClearBuffer \/ HookedFix

SpecFusion == InitWalk /\ [][NextFusion]_vars

(***************************************************************************)
(* The two distance functions called on arbitrary coordinates              *)
(***************************************************************************)
MaxMeasures == 1

\* near the start, NaN, and one decimetre beyond 90 degrees north and south
TestLatitudes == {0, StartLat, StartLat + 200, NaN, LAT_LIMIT + 1, -LAT_LIMIT - 1}
\* near the start, NaN, and one decimetre beyond 180 degrees east and west
TestLongitudes == {StartLon, StartLon + 100, NaN, LON_LIMIT + 1, -LON_LIMIT - 1}

Measure ==
    \E lat1 \in TestLatitudes, lon1 \in TestLongitudes,
       lat2 \in TestLatitudes, lon2 \in TestLongitudes :
        /\ fed < MaxMeasures
        /\ last' = [ op |-> "haversineDistance",
                     in |-> [ from |-> [latitude |-> lat1, longitude |-> lon1],
                              to |-> [latitude |-> lat2, longitude |-> lon2] ],
                     result |-> [ haversineDistance |->
                                      haversineDistance(lat1, lon1, lat2, lon2),
                                  haversine |-> haversine(lat1, lon1, lat2, lon2) ] ]
        /\ fed' = fed + 1
        /\ UNCHANGED <<globalFilter, device, total, batchVars, tripVars>>

NextDistance == Measure

SpecDistance == InitWalk /\ [][NextDistance]_vars

(***************************************************************************)
(* Fixes whose speed and motion confidence may disagree                    *)
(***************************************************************************)
MaxMixed == 4

\* moving at 4 m/s, no speed at all, or 4 m/s with a confidence of 0.4
MixedSignals == Signals \cup { [speed |-> 40, motionConfidence |-> 4] }

MixedPoint ==
    \E step \in Steps, signal \in MixedSignals :
        /\ fed < MaxMixed
        /\ Feed(Moved(step).lat, device.lon, Moved(step).time,
                100, signal.speed, signal.motionConfidence)
        /\ device' = Moved(step)

NextMixed == MixedPoint

SpecMixed == InitWalk /\ [][NextMixed]_vars

(***************************************************************************)
(* A provider that never reports a speed of 0.4 m/s or more                *)
(***************************************************************************)
MaxSlow == 5

\* no speed, or 0.3 m/s
SlowSpeeds == {undefined, 3}
\* motion confidence 0.2 or 1.0
SlowConfidences == {2, 10}
\* reported accuracy 10 m or 60 m
SlowAccuracies == {100, 600}

SlowPoint ==
    \E step \in Steps, speed \in SlowSpeeds,
       motionConfidence \in SlowConfidences, accuracy \in SlowAccuracies :
        /\ fed < MaxSlow
        /\ Feed(Moved(step).lat, device.lon, Moved(step).time,
                accuracy, speed, motionConfidence)
        /\ device' = Moved(step)

NextSlow == SlowPoint

SpecSlow == InitWalk /\ [][NextSlow]_vars

(***************************************************************************)
(* Streams at one update interval: 5 s, just over 10 s, or 20 s            *)
(***************************************************************************)
MaxSparse == 5

\* the spacing of the fixes of one stream, in milliseconds
SparseIntervals == {5000, 10001, 20000}

InitSparse ==
    /\ globalFilter = NewGPSFilter
    /\ \E interval \in SparseIntervals :
           device = [lat |-> StartLat, lon |-> StartLon, time |-> 0,
                     interval |-> interval]
    /\ last = NoCall
    /\ total = 0
    /\ fed = 0
    /\ stored = <<>>
    /\ batch = NoBatch
    /\ motion = NewMotion
    /\ trip = NoTrip

SparsePoint ==
    \E step \in Steps, signal \in Signals :
        /\ fed < MaxSparse
        /\ Feed(Moved(step).lat, device.lon, Moved(step).time,
                100, signal.speed, signal.motionConfidence)
        /\ device' = Moved(step)

NextSparse == SparsePoint

SpecSparse == InitSparse /\ [][NextSparse]_vars

(***************************************************************************)
(* The location subscription: startTrip, the tracking effect, a settings   *)
(* change and endTrip, each split at its awaits                            *)
(***************************************************************************)
MaxStarts == 1
MaxWatches == 3
MaxChanges == 1
MaxDeliveries == 2

\* the hook's state and ref: state.activeTrip (0 for null),
\* state.locationPermission, state.settings.gpsUpdateFrequency,
\* locationSubscription.current (0 for null), the position of startTrip and
\* of endTrip, whether the tracking effect is due, and the number of
\* startLocationTracking calls awaiting watchPositionAsync.
\* The provider: the subscriptions it holds, and how many it has created.
InitSubscribe ==
    /\ globalFilter = NewGPSFilter
    /\ device = [lat |-> StartLat, lon |-> StartLon, time |-> 0,
                 interval |-> 5000, subscriptions |-> {}, created |-> 0]
    /\ last = NoCall
    /\ total = 0
    /\ fed = 0
    /\ stored = <<>>
    /\ batch = NoBatch
    /\ motion = NewMotion
    /\ trip = [activeTrip |-> 0, locationPermission |-> FALSE,
               gpsUpdateFrequency |-> "medium", locationSubscription |-> 0,
               startTrip |-> "idle", endTrip |-> "idle", effect |-> FALSE,
               watching |-> 0, started |-> 0, changes |-> 0]

\* startLocationTracking() up to its await: the subscription in the ref is
\* removed, the ref is cleared, the motion buffer and the filter are reset
\* and watchPositionAsync is called
BeginWatch(t, m) ==
    /\ device' = [device EXCEPT !.subscriptions = @ \ {t.locationSubscription}]
    /\ trip' = [t EXCEPT !.locationSubscription = 0, !.watching = @ + 1]
    /\ motion' = resetGPSMotionBuffer(m)
    /\ globalFilter' = NewGPSFilter

\* stopLocationTracking()
StopWatch(t) ==
    /\ device' = [device EXCEPT !.subscriptions = @ \ {t.locationSubscription}]
    /\ trip' = [t EXCEPT !.locationSubscription = 0]

\* startTrip() up to its setState: permission granted, the trip saved and
\* made the active one
BeginTrip ==
    /\ trip.startTrip = "idle"
    /\ trip.activeTrip = 0
    /\ trip.started < MaxStarts
    /\ trip' = [trip EXCEPT !.activeTrip = trip.started + 1,
                            !.started = @ + 1,
                            !.locationPermission = TRUE,
                            !.startTrip = "motion",
                            !.effect = TRUE]
    /\ total' = 0
    /\ last' = [NoCall EXCEPT !.op = "startTrip"]
    /\ UNCHANGED <<globalFilter, device, fed, stored, batch, motion>>

\* startTrip() from startMotionDetection() to the await in its own
\* startLocationTracking(trip.id) call
TrackTrip ==
    /\ trip.startTrip = "motion"
    /\ BeginWatch([trip EXCEPT !.startTrip = "idle"], startMotionDetection(motion))
    /\ last' = [NoCall EXCEPT !.op = "startLocationTracking"]
    /\ UNCHANGED <<total, fed, stored, batch>>

\* the effect on [activeTrip?.id, locationPermission, startLocationTracking]
TrackingEffect ==
    /\ trip.effect
    /\ IF trip.activeTrip # 0 /\ trip.locationPermission
       THEN BeginWatch([trip EXCEPT !.effect = FALSE], motion)
       ELSE /\ trip' = [trip EXCEPT !.effect = FALSE]
            /\ UNCHANGED <<globalFilter, device, motion>>
    /\ last' = [NoCall EXCEPT !.op = "effect"]
    /\ UNCHANGED <<total, fed, stored, batch>>

\* watchPositionAsync resolves in one of the pending calls: the provider
\* holds a new subscription and the call stores it in the ref
Watching ==
    /\ trip.watching > 0
    /\ device.created < MaxWatches
    /\ device' = [device EXCEPT !.created = @ + 1,
                                !.subscriptions = @ \cup {device.created + 1}]
    /\ trip' = [trip EXCEPT !.locationSubscription = device.created + 1,
                            !.watching = @ - 1]
    /\ last' = [NoCall EXCEPT !.op = "watching"]
    /\ UNCHANGED <<globalFilter, total, fed, stored, batch, motion>>

\* updateSettings() with another gpsUpdateFrequency: startLocationTracking
\* is a new function, so the effect is due
ChangeFrequency ==
    /\ trip.changes < MaxChanges
    /\ trip' = [trip EXCEPT !.gpsUpdateFrequency =
                                IF @ = "medium" THEN "high" ELSE "medium",
                            !.changes = @ + 1,
                            !.effect = TRUE]
    /\ last' = [NoCall EXCEPT !.op = "updateSettings"]
    /\ UNCHANGED <<globalFilter, device, total, fed, stored, batch, motion>>

\* endTrip() up to its first await
StopTrip ==
    /\ trip.activeTrip # 0
    /\ trip.endTrip = "idle"
    /\ StopWatch([trip EXCEPT !.endTrip = "closing"])
    /\ motion' = stopMotionDetection(motion)
    /\ globalFilter' = NewGPSFilter
    /\ last' = [NoCall EXCEPT !.op = "endTrip"]
    /\ UNCHANGED <<total, fed, stored, batch>>

\* endTrip() from its setState on
CloseTrip ==
    /\ trip.endTrip = "closing"
    /\ trip' = [trip EXCEPT !.endTrip = "idle", !.activeTrip = 0,
                            !.effect = TRUE]
    /\ last' = [NoCall EXCEPT !.op = "closeTrip"]
    /\ UNCHANGED <<globalFilter, device, total, fed, stored, batch, motion>>

\* the callbacks of n subscriptions run on one fix, one after the other
RECURSIVE RunCallbacks(_, _, _, _)
RunCallbacks(n, m, f, location) ==
    IF n = 0
    THEN [motion |-> m, filter |-> f, distance |-> 0]
    ELSE LET r == OnLocation(m, f, location)
             rest == RunCallbacks(n - 1, r.motion, r.filter, location)
         IN  [rest EXCEPT !.distance = @ + r.result.distance]

\* the provider has a fix and hands it to every subscription it holds
Deliver ==
    \E step \in Steps, speed \in FixSpeeds :
        \E r \in { RunCallbacks(Cardinality(device.subscriptions), motion,
                                globalFilter,
                                [ latitude |-> Moved(step).lat,
                                  longitude |-> device.lon,
                                  timestamp |-> Moved(step).time,
                                  accuracy |-> 100, speed |-> speed ]) } :
            /\ device.subscriptions # {}
            /\ fed < MaxDeliveries
            /\ motion' = r.motion
            /\ globalFilter' = r.filter
            /\ total' = IF trip.activeTrip # 0 THEN total + r.distance ELSE total
            /\ fed' = fed + 1
            /\ device' = Moved(step)
            /\ last' = [NoCall EXCEPT !.op = "point"]
            /\ UNCHANGED <<stored, batch, trip>>

NextSubscribe ==
    \/ BeginTrip
    \/ TrackTrip
    \/ TrackingEffect
    \/ Watching
    \/ ChangeFrequency
    \/ StopTrip
    \/ CloseTrip
    \/ Deliver

SpecSubscribe == InitSubscribe /\ [][NextSubscribe]_vars

(***************************************************************************)
(* An active trip: location callbacks and loadData, split at its awaits    *)
(***************************************************************************)
MaxLoads == 2
MaxLoadFixes == 6

\* the trip has just been started: state.activeTrip.totalDistance, the
\* totalDistance of the active trip in storage, and the active trips that
\* loadData calls have read and not yet put into the state
InitLoad ==
    /\ globalFilter = NewGPSFilter
    /\ device = [lat |-> StartLat, lon |-> StartLon, time |-> 0,
                 interval |-> 5000]
    /\ last = NoCall
    /\ total = 0
    /\ fed = 0
    /\ stored = <<>>
    /\ batch = NoBatch
    /\ motion = resetGPSMotionBuffer(NewMotion)
    /\ trip = [totalDistance |-> 0, savedDistance |-> 0, loading |-> <<>>,
               loads |-> 0]

\* loadData() up to the result of getActiveTrip()
LoadRead ==
    /\ trip.loads < MaxLoads
    /\ trip' = [trip EXCEPT !.loading = Append(@, trip.savedDistance),
                            !.loads = @ + 1]
    /\ last' = [NoCall EXCEPT !.op = "loadData"]
    /\ UNCHANGED <<globalFilter, device, total, fed, stored, batch, motion>>

\* loadData()'s setState: the trip it read becomes state.activeTrip
LoadApply ==
    /\ trip.loading # <<>>
    /\ \E i \in 1..Len(trip.loading) :
           trip' = [trip EXCEPT !.totalDistance = trip.loading[i],
                                !.loading = SubSeq(@, 1, i - 1) \o
                                            SubSeq(@, i + 1, Len(@))]
    /\ last' = [NoCall EXCEPT !.op = "setState"]
    /\ UNCHANGED <<globalFilter, device, total, fed, stored, batch, motion>>

\* the location callback on one fix: the distance processPoint returns is
\* added to state.activeTrip.totalDistance and the trip is saved
TripFix ==
    \E step \in Steps, speed \in FixSpeeds :
        \E r \in { OnLocation(motion, globalFilter,
                              [ latitude |-> Moved(step).lat,
                                longitude |-> device.lon,
                                timestamp |-> Moved(step).time,
                                accuracy |-> 100, speed |-> speed ]) } :
            /\ fed < MaxLoadFixes
            /\ motion' = r.motion
            /\ globalFilter' = r.filter
            /\ total' = total + r.result.distance
            /\ fed' = fed + 1
            /\ device' = Moved(step)
            /\ trip' = [trip EXCEPT
                          !.totalDistance = @ + r.result.distance,
                          !.savedDistance = trip.totalDistance + r.result.distance]
            /\ last' = [NoCall EXCEPT !.op = "point", !.result = r.result]
            /\ UNCHANGED <<stored, batch>>

NextLoad == LoadRead \/ LoadApply \/ TripFix

SpecLoad == InitLoad /\ [][NextLoad]_vars

(***************************************************************************)
(* Claims about the streaming filter                                       *)
(***************************************************************************)
\* the last call was processPoint with valid coordinates
ValidCall == last.op = "point" /\ last.valid

\* the raw displacement between the two newest buffered samples
LastRawStep ==
    LET b == globalFilter.pointBuffer
    IN  IF Len(b) < 2 THEN 0
        ELSE haversineDistance(b[Len(b) - 1].rawLatitude, b[Len(b) - 1].rawLongitude,
                               b[Len(b)].rawLatitude, b[Len(b)].rawLongitude)

\* C1: a valid call on which the gate is locked once the lock check has run,
\* or whose filtered position is within 12 m of a non-null dwellCenter,
\* returns distance 0 and isMoving false.
C1_LockedOrDwellGivesZero ==
    ( /\ ValidCall
      /\ \/ last.gate.locked
         \/ /\ last.gate.dwellCenter # Null
            /\ haversineDistance(last.gate.dwellCenter.lat, last.gate.dwellCenter.lon,
                                 last.result.filteredLat, last.result.filteredLon) <= 120 )
    => (last.result.distance = 0 /\ last.result.isMoving = FALSE)

\* a locked call on a sample 20 m on, at 4 m/s, accurate, with high confidence,
\* the fourth of the stream
C1_Witness ==
    /\ ValidCall /\ last.gate.locked
    /\ Len(globalFilter.pointBuffer) = 4
    /\ LastRawStep = 200
    /\ last.in.speed = 40 /\ last.in.accuracy = undefined
    /\ last.in.motionConfidence = 8

\* The five unlock conditions as the claims state them, on the filter after
\* the call (pointBuffer, recentPositions and consecutiveMovingCount are then
\* what the lock check saw, unless the call re-locked).
DisplacementOver15(f) == netDisplacementOf(WindowPoints(f.pointBuffer)) > 150

AvgSpeedAtLeast04(f) ==
    LET w == WindowPoints(f.pointBuffer) IN SumSpeed(w) * 10 >= 4 * 10 * Len(w)

AvgAccuracyAtMost50(f) ==
    LET w == WindowPoints(f.pointBuffer) IN SumAccuracy(w) <= 500 * Len(w)

MovingCountAtLeast2(f) == f.consecutiveMovingCount >= 2

\* the filtered positions of the points of the trailing 20 s window
WindowPositions(f) ==
    LET w == WindowPoints(f.pointBuffer)
    IN  [i \in 1..Len(w) |-> [lat |-> w[i].latitude, lon |-> w[i].longitude]]

\* positional variance taken over the trailing 20 s window
WindowVarianceOver8(f) == calculatePositionVariance(WindowPositions(f)) > 80

\* positional variance taken over recentPositions, the newest 10 filtered positions
RecentVarianceOver8(f) == calculatePositionVariance(f.recentPositions) > 80

Unlocked == ValidCall /\ last.wasLocked /\ ~globalFilter.isStationaryLocked

\* C2 as stated: the gate leaves the locked state on a call only if all five
\* conditions hold over the trailing 20 s window, the positional variance
\* included.
C2_UnlockOnlyIfFiveOverWindow ==
    Unlocked =>
        /\ DisplacementOver15(globalFilter)
        /\ AvgSpeedAtLeast04(globalFilter)
        /\ AvgAccuracyAtMost50(globalFilter)
        /\ MovingCountAtLeast2(globalFilter)
        /\ WindowVarianceOver8(globalFilter)

\* C2 amended: the gate leaves the locked state on a call only if net
\* displacement, average speed and average accuracy over the trailing 20 s
\* window, consecutiveMovingCount, and the positional variance of
\* recentPositions (the newest 10 filtered positions, whatever their age)
\* all pass.
C2_UnlockOnlyIfFive ==
    Unlocked =>
        /\ DisplacementOver15(globalFilter)
        /\ AvgSpeedAtLeast04(globalFilter)
        /\ AvgAccuracyAtMost50(globalFilter)
        /\ MovingCountAtLeast2(globalFilter)
        /\ RecentVarianceOver8(globalFilter)

\* the gate unlocks on a call whose own accuracy is 60 m
C2_Witness == Unlocked /\ last.in.accuracy = 600

FiveHold(f) ==
    /\ DisplacementOver15(f)
    /\ AvgSpeedAtLeast04(f)
    /\ AvgAccuracyAtMost50(f)
    /\ MovingCountAtLeast2(f)
    /\ RecentVarianceOver8(f)

\* C3 as stated: a call that finds the gate locked and on which all five
\* unlock conditions hold unlocks the gate.
C3_UnlocksWhenFiveHold ==
    (ValidCall /\ last.wasLocked /\ FiveHold(globalFilter))
    => ~globalFilter.isStationaryLocked

\* C3 amended: a call that finds the gate locked, after which pointBuffer
\* holds at least 4 points with at least 3 of them in the trailing 20 s, and
\* on which all five unlock conditions hold, unlocks the gate.
C3_UnlocksWhenFiveHoldAndWindowFull ==
    ( /\ ValidCall /\ last.wasLocked
      /\ Len(globalFilter.pointBuffer) >= 4
      /\ Len(WindowPoints(globalFilter.pointBuffer)) >= 3
      /\ FiveHold(globalFilter) )
    => ~globalFilter.isStationaryLocked

\* the gate unlocks with exactly the threshold of 2 consecutive moving samples
C3_Witness ==
    /\ Unlocked /\ FiveHold(globalFilter)
    /\ globalFilter.consecutiveMovingCount = 2

\* C6: coordinates that are non-finite or out of range
BadCoordinates(in) ==
    \/ in.latitude = NaN \/ in.longitude = NaN
    \/ in.latitude < -LAT_LIMIT \/ in.latitude > LAT_LIMIT
    \/ in.longitude < -LON_LIMIT \/ in.longitude > LON_LIMIT

\* C6: a processPoint call with a non-finite or out-of-range coordinate
\* returns distance 0, isMoving false and the raw coordinates, and leaves
\* every field of the filter as it was.
C6_InvalidSampleChangesNothing ==
    [][ (last'.op = "point" /\ BadCoordinates(last'.in))
        => /\ globalFilter' = globalFilter
           /\ last'.result = Result(0, FALSE, last'.in.latitude, last'.in.longitude)
      ]_vars

\* an invalid sample arrived after two valid ones, one of them moving
C6_Witness ==
    /\ last.op = "point" /\ BadCoordinates(last.in)
    /\ Len(globalFilter.pointBuffer) = 2
    /\ globalFilter.consecutiveMovingCount = 1

RawWithin5m(f) ==
    \A i \in 1..Len(f.pointBuffer) :
        haversineDistance(StartLat, StartLon,
                          f.pointBuffer[i].rawLatitude,
                          f.pointBuffer[i].rawLongitude) <= 50

\* C4: while every raw position fed to a fresh filter lies within a 5 m
\* radius, the distances returned sum to 0 and the gate stays locked.
C4_ParkedAddsNothing ==
    RawWithin5m(globalFilter) => (total = 0 /\ globalFilter.isStationaryLocked)

\* five fixes jumping 10 m between the ends of the cluster, reported as
\* moving at 4 m/s with high confidence, the last two accurate
C4_Witness ==
    /\ ValidCall /\ Len(globalFilter.pointBuffer) = 5
    /\ RawWithin5m(globalFilter)
    /\ LastRawStep = 100
    /\ globalFilter.consecutiveMovingCount = 5
    /\ last.in.accuracy = undefined
    /\ globalFilter.pointBuffer[4].accuracy = 200

\* the sum of the straight-line distances between consecutive raw positions
RECURSIVE RawPathLength(_)
RawPathLength(b) ==
    IF Len(b) < 2 THEN 0
    ELSE haversineDistance(b[1].rawLatitude, b[1].rawLongitude,
                           b[2].rawLatitude, b[2].rawLongitude)
         + RawPathLength(Tail(b))

\* C8 as stated, in the part that fails: on a steady walk every call on
\* which the gate is unlocked returns a positive distance.
C8_EveryUnlockedSampleCounts ==
    (ValidCall /\ ~globalFilter.isStationaryLocked) => last.result.distance > 0

\* C8 amended: on a steady walk the gate is unlocked by the 5th sample and
\* stays unlocked, and after 10 samples the total is greater than 0 and not
\* greater than the straight-line sum of the segments.
C8_WalkAccumulates ==
    /\ fed >= 5 => ~globalFilter.isStationaryLocked
    /\ (ValidCall /\ ~last.wasLocked) => ~globalFilter.isStationaryLocked
    /\ fed >= 10 =>
          /\ total > 0
          /\ total <= RawPathLength(globalFilter.pointBuffer)

\* ten samples fed, one of them unlocked and adding nothing
C8_Witness ==
    /\ fed = 10 /\ ValidCall
    /\ ~globalFilter.isStationaryLocked
    /\ last.result.distance = 0
    /\ total > 1000

(***************************************************************************)
(* Claims about the batch recomputer                                       *)
(***************************************************************************)
\* every stored point lies within 5 m of one point and carries no flag
StoredWithin5m ==
    \A i \in 1..Len(stored) :
        /\ haversineDistance(StartLat, StartLon,
                             stored[i].latitude, stored[i].longitude) <= 50
        /\ stored[i].isStationary = "undefined"

\* C5: calculateFilteredDistance returns 0 for every set of unflagged
\* samples whose positions all lie within a 5 m radius.
C5_BatchParkedIsZero ==
    (batch.calls >= 1 /\ StoredWithin5m) => batch.latest = 0

\* C7: every call of calculateFilteredDistance on the same set of samples,
\* in whatever order they are handed over, returns the same total.
C7_BatchOrderIndependent ==
    batch.calls >= 1 => batch.latest = batch.first

(***************************************************************************)
(* Claims about trips                                                      *)
(***************************************************************************)
\* the engine state a freshly created engine starts tracking with
C10_NoResidue ==
    last.op = "startTrip" =>
        /\ globalFilter = NewGPSFilter
        /\ motion.gpsMotionBuffer = NewMotion.gpsMotionBuffer
        /\ motion.smoothedConfidence = NewMotion.smoothedConfidence
        /\ motion.globalMotionState = NewMotion.globalMotionState
        /\ motion.globalIsMoving = NewMotion.globalIsMoving
        /\ motion.globalMotionConfidence = NewMotion.globalMotionConfidence

\* the filter results of a fresh engine on a sequence of fixes, with no
\* accelerometer reading in between
RECURSIVE FreshOutputs(_, _, _)
FreshOutputs(m, f, samples) ==
    IF samples = <<>> THEN <<>>
    ELSE CHOOSE outs \in { <<r.result>> \o FreshOutputs(r.motion, r.filter, Tail(samples)) :
                              r \in {OnLocation(m, f, Head(samples))} } : TRUE

C10_SameOutputs ==
    (trip.active /\ motion.magnitudeBuffer = <<>>) =>
        trip.outputs = FreshOutputs(NewMotion, NewGPSFilter, trip.samples)

\* C10: when tracking starts for a new trip every piece of engine state is
\* back at its initial value, the inertial motion state and confidence
\* included, so a trip's fixes give the results a fresh engine gives.
C10_NewTripStartsClean == C10_NoResidue /\ C10_SameOutputs

(***************************************************************************)
(* Claims about the position estimator                                     *)
(***************************************************************************)
\* x lies between a and b
Between(x, a, b) == (a <= x /\ x <= b) \/ (b <= x /\ x <= a)

\* the newest element of a non-empty sequence
Newest(s) == s[Len(s)]

\* the variance the estimator predicts for a measurement at `timestamp`
PredictedVariance(old, timestamp) ==
    LET processNoise == (PROCESS_NOISE * (timestamp - old.timestamp)) \div 1000
    IN  old.latVariance + processNoise * processNoise

\* C11: every sample with valid coordinates is taken by the estimator
\* whatever its accuracy: the Kalman state gets the sample's timestamp, an
\* estimate between the old estimate and the measurement and a variance below
\* the predicted one (the measurement had a positive weight), and the
\* filtered point is the newest element of recentPositions and pointBuffer.
C11_EveryAccuracyAdmitted ==
    [][ (last'.op = "point" /\ ~BadCoordinates(last'.in))
        => LET ks == globalFilter'.kalmanState
               old == globalFilter.kalmanState
               in == last'.in
           IN  /\ ks # Null
               /\ ks.timestamp = in.timestamp
               /\ IF old = Null
                  THEN ks.lat = in.latitude /\ ks.lon = in.longitude
                  ELSE /\ Between(ks.lat, old.lat, in.latitude)
                       /\ Between(ks.lon, old.lon, in.longitude)
                       /\ ks.latVariance < PredictedVariance(old, in.timestamp)
               /\ globalFilter'.recentPositions # <<>>
               /\ Newest(globalFilter'.recentPositions) =
                      [lat |-> ks.lat, lon |-> ks.lon, timestamp |-> in.timestamp]
               /\ Len(globalFilter'.pointBuffer) =
                      Min(Len(globalFilter.pointBuffer) + 1, BUFFER_SIZE)
               /\ Newest(globalFilter'.pointBuffer).latitude = ks.lat
               /\ Newest(globalFilter'.pointBuffer).longitude = ks.lon
               /\ Newest(globalFilter'.pointBuffer).timestamp = in.timestamp
               /\ Newest(globalFilter'.pointBuffer).rawLatitude = in.latitude
               /\ last'.result.filteredLat = ks.lat
      ]_vars

\* a fix with accuracy 120 m taken 20 m away from the estimate
C11_Witness ==
    /\ last.op = "point" /\ ~BadCoordinates(last.in)
    /\ last.in.accuracy = 1200
    /\ Len(globalFilter.pointBuffer) >= 2
    /\ globalFilter.pointBuffer[Len(globalFilter.pointBuffer) - 1].latitude
           # last.in.latitude
    /\ Newest(globalFilter.pointBuffer).accuracy = 1200
    /\ globalFilter.kalmanState.timestamp = last.in.timestamp

(***************************************************************************)
(* Claims about the iterations of the batch loop                           *)
(***************************************************************************)
\* the loop variables before the first iteration and after each iteration
RECURSIVE BatchStates(_, _)
BatchStates(st, sortedPoints) ==
    IF sortedPoints = <<>> THEN <<st>>
    ELSE <<st>> \o BatchStates(BatchStep(st, Head(sortedPoints)), Tail(sortedPoints))

\* the iterations of calculateFilteredDistance(stored): the point taken, and
\* the loop variables before and after it
Iterations ==
    IF Len(stored) < 2 THEN <<>>
    ELSE LET sorted == SortByTimestamp(stored)
             states == BatchStates(BatchStart, sorted)
         IN  [ i \in 1..Len(sorted) |->
                 [ point |-> sorted[i], before |-> states[i], after |-> states[i + 1] ] ]

\* the iteration added a segment to totalDistance
AddsSegment(it) == it.after.totalDistance > it.before.totalDistance

\* segment length / elapsed time is within 1 km/h .. 200 km/h
BatchSpeedInRange(anchor, point) ==
    LET segment == haversineDistance(anchor.latitude, anchor.longitude,
                                     point.latitude, point.longitude)
        timeDiffMs == point.timestamp - anchor.timestamp
    IN  /\ timeDiffMs > 0
        /\ segment * 360 >= 1 * timeDiffMs
        /\ segment * 360 <= 200 * timeDiffMs

\* C12: every segment calculateFilteredDistance adds to the total has an
\* implied speed (length / time elapsed since the anchor) within the
\* plausible range, whatever the two timestamps are.
C12_CountedSegmentsPlausible ==
    batch.calls >= 1 =>
        \A i \in DOMAIN Iterations :
            AddsSegment(Iterations[i]) =>
                BatchSpeedInRange(Iterations[i].before.lastValidPoint,
                                  Iterations[i].point)

\* C15: in calculateFilteredDistance the anchor changes only in an iteration
\* that adds a segment, or when the first anchor is taken.
C15_BatchAnchorOnlyOnCount ==
    batch.calls >= 1 =>
        \A i \in DOMAIN Iterations :
            Iterations[i].after.lastValidPoint # Iterations[i].before.lastValidPoint
                => \/ AddsSegment(Iterations[i])
                   \/ Iterations[i].before.lastValidPoint = Null

(***************************************************************************)
(* Claims about the endpoints of a counted segment                         *)
(***************************************************************************)
\* C13: no processPoint call returns a positive distance when the reported
\* accuracy of the sample, or of the anchor the segment starts at, is
\* above 50 m.
C13_NoCoarseEndpoint ==
    [][ (last'.op = "point" /\ last'.result.distance > 0)
        => /\ Newest(globalFilter'.pointBuffer).accuracy <= 500
           /\ globalFilter.lastValidPoint # Null
           /\ globalFilter.lastValidPoint.accuracy <= 500
      ]_vars

(***************************************************************************)
(* Claims about the anchor of the streaming accumulator                    *)
(***************************************************************************)
\* the sample is classified moving / stationary by speed and by confidence
MovingByBoth(in) == in.speed # undefined /\ in.speed >= 4 /\ in.motionConfidence >= 6
StationaryByBoth(in) == in.speed = undefined \/ in.speed < 4

\* the call took the sample into both buffers (each drops its oldest entry
\* when full) and into the counters
BufferedAndCounted ==
    /\ Len(globalFilter'.pointBuffer) =
           Min(Len(globalFilter.pointBuffer) + 1, BUFFER_SIZE)
    /\ Newest(globalFilter'.pointBuffer).timestamp = last'.in.timestamp
    /\ Len(globalFilter'.recentPositions) =
           Min(Len(globalFilter.recentPositions) + 1, VARIANCE_WINDOW_SIZE)
    /\ Newest(globalFilter'.recentPositions).timestamp = last'.in.timestamp
    /\ MovingByBoth(last'.in) =>
           globalFilter'.consecutiveMovingCount =
               IF ~last'.wasLocked /\ last'.gate.locked
               THEN 0 ELSE globalFilter.consecutiveMovingCount + 1
    /\ StationaryByBoth(last'.in) =>
           /\ globalFilter'.consecutiveStationaryCount =
                  globalFilter.consecutiveStationaryCount + 1
           /\ globalFilter'.consecutiveMovingCount = 0

\* C14 as stated: a valid sample that contributes zero distance leaves
\* lastValidPoint as it was, while it is buffered and counted.
C14_ZeroNeverMovesAnchor ==
    [][ (last'.op = "point" /\ ~BadCoordinates(last'.in) /\ last'.result.distance = 0)
        => /\ globalFilter'.lastValidPoint = globalFilter.lastValidPoint
           /\ BufferedAndCounted
      ]_vars

\* C14: a valid sample that contributes zero distance is buffered and
\* counted; it leaves lastValidPoint as it was when the gate is unlocked
\* after the lock check, and becomes lastValidPoint when the gate is locked.
\* With the gate unlocked lastValidPoint changes only on a call that returns
\* a positive distance.
C14_ZeroMovesAnchorOnlyWhenLocked ==
    [][ (last'.op = "point" /\ ~BadCoordinates(last'.in))
        => /\ last'.result.distance = 0 =>
                 /\ BufferedAndCounted
                 /\ IF last'.gate.locked
                    THEN globalFilter'.lastValidPoint = Newest(globalFilter'.pointBuffer)
                    ELSE globalFilter'.lastValidPoint = globalFilter.lastValidPoint
           /\ (/\ ~last'.gate.locked
               /\ globalFilter'.lastValidPoint # globalFilter.lastValidPoint)
                 => last'.result.distance > 0
      ]_vars

\* a call on an unlocked filter that returned 0 and left the anchor at the
\* sample counted before it
C14_Witness ==
    /\ last.op = "point" /\ ~BadCoordinates(last.in)
    /\ ~last.wasLocked /\ ~last.gate.locked
    /\ last.result.distance = 0
    /\ Len(globalFilter.pointBuffer) >= 3
    /\ globalFilter.lastValidPoint.isValidMovement
    /\ globalFilter.lastValidPoint.timestamp < last.in.timestamp

(***************************************************************************)
(* Claims relating the two modes                                           *)
(***************************************************************************)
\* a stored point as the FilteredPoint processPoint buffers for it
AsFilteredPoint(p) ==
    [ latitude |-> p.latitude, longitude |-> p.longitude,
      timestamp |-> p.timestamp,
      accuracy |-> IF p.accuracy = undefined THEN 200 ELSE p.accuracy,
      speed |-> 0, isValidMovement |-> FALSE, filteredDistance |-> 0,
      rawLatitude |-> p.latitude, rawLongitude |-> p.longitude ]

RECURSIVE AsPositions(_)
AsPositions(ps) ==
    IF ps = <<>> THEN <<>>
    ELSE << [lat |-> Head(ps).latitude, lon |-> Head(ps).longitude,
             timestamp |-> Head(ps).timestamp] >> \o AsPositions(Tail(ps))

\* an unlocked GPSFilter about to decide on the segment of a batch iteration:
\* the same anchor, sample, accuracies, variance window and moving count
StreamingTwin(it) ==
    [ NewGPSFilter EXCEPT
        !.isStationaryLocked = FALSE,
        !.lastValidPoint = AsFilteredPoint(it.before.lastValidPoint),
        !.pointBuffer = <<AsFilteredPoint(it.point)>>,
        !.recentPositions = AsPositions(it.after.recentPoints),
        !.consecutiveMovingCount = it.after.movingCount ]

\* the iteration decides on a candidate segment: its point is usable,
\* carries no stationary flag, and there is an anchor
DecidesOnSegment(it) ==
    /\ it.before.lastValidPoint # Null
    /\ it.after.recentPoints # it.before.recentPoints
    /\ it.point.isStationary # "true"

\* C16: calculateFilteredDistance counts a candidate segment if and only if
\* processPoint with the gate unlocked counts the segment with the same
\* endpoints, accuracies, variance window, elapsed time and moving count.
C16_SameDecisionInBothModes ==
    batch.calls >= 1 =>
        \A i \in DOMAIN Iterations :
            DecidesOnSegment(Iterations[i]) =>
                ( AddsSegment(Iterations[i])
                  <=> Pipeline(StreamingTwin(Iterations[i])).result.distance > 0 )

(***************************************************************************)
(* Claims about re-locking                                                 *)
(***************************************************************************)
\* The re-lock conditions as the claim states them, on the filter after the
\* call (pointBuffer, recentPositions and consecutiveStationaryCount are then
\* what the lock check saw).
DisplacementUnder12(f) == netDisplacementOf(WindowPoints(f.pointBuffer)) < 120

AvgSpeedUnder05(f) ==
    LET w == WindowPoints(f.pointBuffer) IN SumSpeed(w) * 10 < 5 * 10 * Len(w)

WindowVarianceUnder8(f) == calculatePositionVariance(WindowPositions(f)) < 80

RecentVarianceUnder8(f) == calculatePositionVariance(f.recentPositions) < 80

StationaryCountAtLeast4(f) == f.consecutiveStationaryCount >= 4

\* a call that found the gate unlocked
UnlockedCall == ValidCall /\ ~last.wasLocked

Relocked == UnlockedCall /\ last.gate.locked

\* what the claim says of every re-lock: dwellCenter is the filtered position
\* of the sample, consecutiveMovingCount is 0, the call returns 0
RelockEffects ==
    /\ globalFilter.dwellCenter =
           [lat |-> last.result.filteredLat, lon |-> last.result.filteredLon]
    /\ globalFilter.dwellCenter =
           [lat |-> Newest(globalFilter.pointBuffer).latitude,
            lon |-> Newest(globalFilter.pointBuffer).longitude]
    /\ globalFilter.consecutiveMovingCount = 0
    /\ last.result.distance = 0
    /\ globalFilter.isStationaryLocked

\* C17 as stated: an unlocked gate re-locks on a call exactly when, over the
\* trailing 20 s window, net displacement < 12 m and average speed < 0.5 m/s,
\* or positional variance < 8 m and consecutiveStationaryCount >= 4; every
\* re-lock sets dwellCenter to the sample's filtered position and
\* consecutiveMovingCount to 0, and the call returns 0.
C17_RelocksExactlyWhenOverWindow ==
    UnlockedCall =>
        /\ last.gate.locked <=>
               \/ DisplacementUnder12(globalFilter) /\ AvgSpeedUnder05(globalFilter)
               \/ WindowVarianceUnder8(globalFilter)
                      /\ StationaryCountAtLeast4(globalFilter)
        /\ last.gate.locked => RelockEffects

\* C17 amended: an unlocked gate re-locks on a call exactly when pointBuffer
\* holds at least 4 points with at least 3 of them in the trailing 20 s, and
\* either net displacement < 12 m and average speed < 0.5 m/s over that
\* window, or the positional variance of recentPositions (the newest 10
\* filtered positions, whatever their age) < 8 m and
\* consecutiveStationaryCount >= 4; every re-lock has the stated effects.
C17_RelocksExactlyWhen ==
    UnlockedCall =>
        /\ last.gate.locked <=>
               /\ Len(globalFilter.pointBuffer) >= 4
               /\ Len(WindowPoints(globalFilter.pointBuffer)) >= 3
               /\ \/ DisplacementUnder12(globalFilter) /\ AvgSpeedUnder05(globalFilter)
                  \/ RecentVarianceUnder8(globalFilter)
                         /\ StationaryCountAtLeast4(globalFilter)
        /\ last.gate.locked => RelockEffects

\* the gate re-locks on the variance condition alone: the walk has stopped
\* for four samples but the trailing window still holds a fix with a speed
C17_Witness ==
    /\ Relocked
    /\ ~(DisplacementUnder12(globalFilter) /\ AvgSpeedUnder05(globalFilter))
    /\ RecentVarianceUnder8(globalFilter)
    /\ StationaryCountAtLeast4(globalFilter)

(***************************************************************************)
(* Claims about the coordinate (0,0)                                       *)
(***************************************************************************)
AtZero(p) == p.latitude = 0 /\ p.longitude = 0

\* C18, streaming half: a processPoint call with the coordinate (0,0)
\* changes no field of the filter (Kalman estimate, buffers, anchor,
\* counters) and returns distance 0.
C18_ZeroPointLeavesFilter ==
    [][ (last'.op = "point" /\ last' # last /\ AtZero(last'.in))
        => (globalFilter' = globalFilter /\ last'.result.distance = 0) ]_vars

\* C18, batch half: calculateFilteredDistance passes over a point at (0,0)
\* without touching the variance window, the counters or the anchor.
C18_BatchSkipsZero ==
    batch.calls >= 1 =>
        \A i \in DOMAIN Iterations :
            AtZero(Iterations[i].point) => Iterations[i].after = Iterations[i].before

C18_BatchWitness ==
    /\ batch.calls >= 1
    /\ \E i \in DOMAIN Iterations :
           AtZero(Iterations[i].point) /\ Iterations[i].before.lastValidPoint # Null

(***************************************************************************)
(* Claims about the motion classifier                                      *)
(***************************************************************************)
\* C19: a fix with a non-finite or out-of-range coordinate delivered to the
\* location callback leaves the GPSFilter untouched, is not stored in the
\* classifier's GPS ring buffer and does not change its smoothed confidence.
C19_InvalidFixNeverUsed ==
    [][ (last'.op = "point" /\ last' # last /\ BadCoordinates(last'.in))
        => /\ globalFilter' = globalFilter
           /\ motion'.gpsMotionBuffer = motion.gpsMotionBuffer
           /\ motion'.smoothedConfidence = motion.smoothedConfidence ]_vars

\* 0.6 * inertial + 0.4 * GPS-geometry confidence, in thousandths
Blend(inertial, geometry) == (geometry * 4 + inertial * 6) \div 10

\* the raw fused confidence of an analyzeGPSMotion call as the claim states it
StatedFusion(buf, in) ==
    IF in.accelerometerConfidence # undefined
    THEN Blend(in.accelerometerConfidence, gpsGeometryConfidence(buf, in.location))
    ELSE gpsGeometryConfidence(buf, in.location)

\* C20: an analyzeGPSMotion call with at least 3 buffered samples smooths in
\* the raw fused confidence 0.6 * inertial + 0.4 * GPS-geometry whenever an
\* inertial confidence is supplied, 0 included, and the GPS-geometry
\* confidence alone only when none is supplied.
C20_BlendsWheneverSupplied ==
    [][ (last'.op = "analyzeGPSMotion" /\ last' # last
            /\ Len(motion'.gpsMotionBuffer) >= 3)
        => /\ motion'.smoothedConfidence =
                  (motion.smoothedConfidence
                     + StatedFusion(motion'.gpsMotionBuffer, last'.in)) \div 2
           /\ last'.result.motionConfidence = motion'.smoothedConfidence ]_vars

InUnit(c) == c >= 0 /\ c <= 1000

\* C21: the classifier's smoothed confidence, the confidence an
\* analyzeGPSMotion call returns, the confidence published by the
\* accelerometer hook and the confidence the location callback passes to
\* processPoint all lie in [0,1].
C21_ConfidenceInUnitInterval ==
    /\ InUnit(motion.smoothedConfidence)
    /\ InUnit(motion.globalMotionConfidence)
    /\ last.op = "analyzeGPSMotion" => InUnit(last.result.motionConfidence)
    /\ last.op = "point" =>
           /\ last.in.motionConfidence >= 0
           /\ last.in.motionConfidence <= 10

\* the callback passes on the larger of a published accelerometer confidence
\* and a GPS confidence built from three fixes
C21_Witness ==
    /\ last.op = "point"
    /\ motion.globalMotionState = "stationary"
    /\ Len(motion.gpsMotionBuffer) >= 3
    /\ motion.smoothedConfidence > motion.globalMotionConfidence
    /\ last.in.motionConfidence * 100 <= motion.smoothedConfidence
    /\ last.in.motionConfidence * 100 > motion.globalMotionConfidence

(***************************************************************************)
(* Claims about the distance functions                                     *)
(***************************************************************************)
\* C22: GPSFilter.haversineDistance and the batch haversine helper return
\* exactly 0 for every pair of points of which one has a non-finite
\* coordinate, |lat| > 90 or |lon| > 180.
C22_BadPairMeasuresZero ==
    (last.op = "haversineDistance"
        /\ (BadCoordinates(last.in.from) \/ BadCoordinates(last.in.to)))
    => /\ last.result.haversineDistance = 0
       /\ last.result.haversine = 0

\* a valid start point measured against a point beyond 180 degrees east
C22_Witness ==
    /\ last.op = "haversineDistance"
    /\ ~BadCoordinates(last.in.from)
    /\ last.in.to.longitude = LON_LIMIT + 1
    /\ last.in.to.latitude = StartLat + 200
    /\ last.result.haversineDistance = 0
    /\ last.result.haversine = 0

(***************************************************************************)
(* Claims about the run of moving samples                                  *)
(***************************************************************************)
\* the newest n buffered points all carry a speed of at least 0.4 m/s, which
\* every sample classified as moving does
NewestHaveSpeed(f, n) ==
    /\ Len(f.pointBuffer) >= n
    /\ \A i \in (Len(f.pointBuffer) - n + 1)..Len(f.pointBuffer) :
           f.pointBuffer[i].speed >= 4

\* C23, streaming half: processPoint returns a positive distance only when
\* the sample is at least the third of an unbroken run of samples classified
\* as moving.
C23_CountsAfterThreeMoving ==
    (ValidCall /\ last.result.distance > 0)
    => /\ NewestHaveSpeed(globalFilter, 3)
       /\ globalFilter.consecutiveMovingCount >= 3

\* C23, batch half: calculateFilteredDistance adds a segment only on a point
\* that is at least the third of an unbroken run of moving points.
C23_BatchCountsAfterThreeMoving ==
    batch.calls >= 1 =>
        \A i \in DOMAIN Iterations :
            AddsSegment(Iterations[i]) =>
                /\ i >= 3
                /\ Iterations[i].after.movingCount >= 3
                /\ Iterations[i - 1].after.movingCount >= 2
                /\ Iterations[i - 2].after.movingCount >= 1

\* C24: after every processPoint call consecutiveMovingCount is the length
\* of the current unbroken run of samples classified as moving, and
\* consecutiveStationaryCount that of the run of samples classified as
\* stationary: a moving sample adds 1 to the moving count, any other sample
\* resets it to 0, and likewise for the stationary count.
C24_CountersAreRunLengths ==
    [][ (last'.op = "point" /\ last' # last /\ ~BadCoordinates(last'.in))
        => /\ globalFilter'.consecutiveMovingCount =
                  IF MovingByBoth(last'.in)
                  THEN globalFilter.consecutiveMovingCount + 1 ELSE 0
           /\ globalFilter'.consecutiveStationaryCount =
                  IF StationaryByBoth(last'.in)
                  THEN globalFilter.consecutiveStationaryCount + 1 ELSE 0
      ]_vars

(***************************************************************************)
(* Claims about dwellCenter and isMoving                                   *)
(***************************************************************************)
DwellCenterIffLocked(f) == (f.dwellCenter # Null) <=> f.isStationaryLocked

\* C25 as stated: in every state of a GPSFilter reached after at least one
\* valid sample, the state after a reset() included, dwellCenter is non-null
\* exactly when the gate is locked.
C25_DwellCenterIffLockedEver ==
    [][ ( \/ last'.op = "point" /\ last' # last /\ ~BadCoordinates(last'.in)
          \/ last'.op = "reset" /\ globalFilter.pointBuffer # <<>> )
        => DwellCenterIffLocked(globalFilter') ]_vars

\* C25 amended: in every state with at least one valid sample processed since
\* construction or the last reset(), dwellCenter is non-null exactly when the
\* gate is locked; so an unlocked gate has no dwellCenter.
C25_DwellCenterIffLocked ==
    /\ globalFilter.pointBuffer # <<>> => DwellCenterIffLocked(globalFilter)
    /\ ~globalFilter.isStationaryLocked => globalFilter.dwellCenter = Null

\* the gate has unlocked, cleared dwellCenter, and re-locked at a new one
C25_Witness ==
    /\ Relocked
    /\ globalFilter.dwellCenter # Null
    /\ globalFilter.dwellCenter.lat > StartLat + 200

MovingIffDistance(r) == r.isMoving <=> (r.distance > 0)

\* C26 as stated: every processPoint call returns isMoving true exactly when
\* it returns a positive distance, and after the first valid sample
\* lastValidPoint is never null, the state after a reset() included.
C26_MovingIffDistanceAnchorEver ==
    [][ /\ (last'.op = "point" /\ last' # last) => MovingIffDistance(last'.result)
        /\ ( \/ last'.op = "point" /\ last' # last /\ ~BadCoordinates(last'.in)
             \/ last'.op = "reset" /\ globalFilter.pointBuffer # <<>> )
           => globalFilter'.lastValidPoint # Null ]_vars

\* C26 amended: every processPoint call returns isMoving true exactly when it
\* returns a positive distance; with at least one valid sample processed
\* since construction or the last reset(), lastValidPoint is not null, so an
\* unlocked gate always has an anchor.
C26_MovingIffDistance ==
    /\ last.op = "point" => MovingIffDistance(last.result)
    /\ globalFilter.pointBuffer # <<>> => globalFilter.lastValidPoint # Null
    /\ ~globalFilter.isStationaryLocked => globalFilter.lastValidPoint # Null

\* a call on a gate that was already unlocked counted a segment from its
\* anchor
C26_Witness ==
    /\ UnlockedCall
    /\ last.result.isMoving
    /\ last.result.distance > 0
    /\ globalFilter.lastValidPoint = Newest(globalFilter.pointBuffer)

(***************************************************************************)
(* Claims about streams that cannot unlock                                 *)
(***************************************************************************)
\* C27: on a stream whose samples all have a speed that is absent or below
\* 0.4 m/s, whatever the coordinates and motion confidences,
\* consecutiveMovingCount stays 0, the gate stays locked, every call returns
\* distance 0 and the total is 0.
C27_SlowStreamStaysLocked ==
    /\ globalFilter.consecutiveMovingCount = 0
    /\ globalFilter.isStationaryLocked
    /\ total = 0
    /\ last.op = "point" =>
           /\ last.result.distance = 0
           /\ ~last.result.isMoving
           /\ globalFilter.consecutiveStationaryCount = fed

\* five samples 20 m apart at 0.3 m/s with motion confidence 1.0: the lock
\* check runs on a displacement of 80 m
C27_Witness ==
    /\ fed = 5
    /\ last.in.speed = 3 /\ last.in.motionConfidence = 10
    /\ LockCheckRuns(globalFilter.pointBuffer)
    /\ DisplacementOver15(globalFilter)
    /\ RecentVarianceOver8(globalFilter)
    /\ AvgAccuracyAtMost50(globalFilter)

\* C28: a processPoint call changes the lock state only when pointBuffer
\* then holds at least 4 points with at least 3 of them in the 20 s before
\* the newest; on a stream whose samples are more than 10 s apart the gate
\* stays in its initial locked state and the total distance stays 0.
C28_SparseStreamStaysLocked ==
    /\ (ValidCall /\ last.wasLocked # last.gate.locked) =>
           /\ Len(globalFilter.pointBuffer) >= 4
           /\ Len(WindowPoints(globalFilter.pointBuffer)) >= 3
    /\ device.interval > 10000 =>
           /\ globalFilter.isStationaryLocked
           /\ globalFilter.lockReleaseTime = 0
           /\ total = 0
           /\ last.op = "point" => last.result.distance = 0

\* five moving fixes 20 m and 20 s apart: all five unlock conditions hold on
\* the two points of the window, and the gate is locked
C28_Witness ==
    /\ fed = 5
    /\ device.interval = 20000
    /\ Len(WindowPoints(globalFilter.pointBuffer)) = 2
    /\ FiveHold(globalFilter)
    /\ globalFilter.isStationaryLocked

\* C29: whatever the interleaving of startTrip, the tracking effect, a
\* change of gpsUpdateFrequency and endTrip, the provider holds at most one
\* location subscription.
C29_AtMostOneSubscription ==
    Cardinality(device.subscriptions) <= 1

\* C30: during an active trip, whatever the interleaving of location
\* callbacks and loadData, activeTrip.totalDistance is the sum of the
\* distances processPoint has returned for the trip's fixes.
C30_TotalIsSumOfDistances ==
    trip.totalDistance = total

\* C30, second half: activeTrip.totalDistance never decreases.
C30_TotalNeverDecreases ==
    [][trip'.totalDistance >= trip.totalDistance]_vars

====
